---- MODULE Spec2Model ----
(***************************************************************************)
(* Verification model of the Databento live client (libdbn, libdbnopra).   *)
(*                                                                         *)
(* Spec          one session engine (dbn.c): dbn_connect, dbn_start,       *)
(*               dbn_get, dbn_close, together with the kernel side of the  *)
(*               io_uring (receive requests completing into buffer0 and    *)
(*               buffer1).                                                 *)
(* SpecDiscover  the OPRA discovery engine (dbn_opra_discover.c): on_msg,  *)
(*               on_error, worker, start, destroy.                         *)
(***************************************************************************)
EXTENDS Integers, Sequences, FiniteSets, TLC

(***************************************************************************)
(* Bounds of the model.                                                    *)
(***************************************************************************)
\* Number of records of the byte stream the gateway sends.
MaxRecs == 2
\* dbn->capacity, the size of buffer0, buffer1 and leftover, scaled down
\* from the 64 MiB the code asks for.
Capacity == 36

(***************************************************************************)
(* Program constants.                                                      *)
(***************************************************************************)
\* sizeof(dbn_hdr_t), the literal 16 of the decode loop.
HdrLen == 16
\* rlength counts 4-byte units.
LenUnit == 4
IsPrefix(s, t) == /\ Len(s) <= Len(t)
                  /\ \A i \in 1..Len(s) : s[i] = t[i]

(***************************************************************************)
(* The wire: a concatenation of records.  A record is its rlength byte,    *)
(* one byte that identifies it (its position in the stream), and zero      *)
(* bytes up to its length.  rlength 2 is the malformed header of the       *)
(* framing-error scenario; it is laid out as a bare 16-byte header.        *)
(***************************************************************************)
RLengths == {2, 4, 5}

ValidRLength(rl) == LenUnit * rl >= HdrLen

Zeros(k) == [i \in 1..k |-> 0]

WireLen(rl) == IF ValidRLength(rl) THEN LenUnit * rl ELSE HdrLen

MkRecord(rl, id) == <<rl, id>> \o Zeros(WireLen(rl) - 2)

RECURSIVE Flatten(_)
Flatten(recs) == IF recs = <<>> THEN <<>>
                 ELSE Head(recs) \o Flatten(Tail(recs))

\* The records of a stream given by its rlength bytes.
RecordsOf(rls) == [i \in 1..Len(rls) |-> MkRecord(rls[i], i)]

RECURSIVE RecStart(_, _)
\* Offset in the wire of the first byte of record i.
RecStart(rls, i) == IF i = 1 THEN 0
                    ELSE RecStart(rls, i - 1) + WireLen(rls[i - 1])

\* Offsets inside a record at which a kernel delivery may end: the record
\* boundary, after the rlength byte, inside the header, one byte short of
\* the header, the end of the header, and inside the body.
CutOffsets == {0, 1, 4, 15, 16, 17}

\* Positions of the wire at which a delivery may end.
CutPoints(rls) ==
  UNION { { RecStart(rls, i) + d : d \in { e \in CutOffsets : e < WireLen(rls[i]) } } :
          i \in 1..Len(rls) }
  \cup { RecStart(rls, Len(rls)) + WireLen(rls[Len(rls)]) }

Streams == UNION { [1..k -> RLengths] : k \in 1..MaxRecs }

Buffers == {0, 1}

VARIABLES
  stream,       \* rlength bytes of the records the gateway sends
  on_msg,       \* dbn->on_msg is not NULL
  wire,         \* the bytes the gateway sends after the stream preamble
  conn,         \* transport: "open", "eof" (peer closed), "reset" (error)
  sent,         \* bytes of the wire the kernel has received into buffers
  sock,         \* dbn->sock: 0 after memset, -1 after a failed socket(), else the descriptor opened
  sockOpen,     \* the descriptor opened by socket() is still open
  ringInit,     \* io_uring_queue_init has run on dbn->ring
  posted,       \* buffers with an outstanding receive request
  cq,           \* completion queue: sequence of [buf, res]
  buffer,       \* contents of buffer0 / buffer1 (the valid bytes)
  bufAlloc,     \* which of buffer0, buffer1, leftover are allocated
  leftover,     \* the first leftover_count bytes of dbn->leftover
  pc,           \* position of the owning thread: "idle" or "drain" (inside dbn_get's loop)
  cur,          \* dbn_get: buffer being drained
  ptr,          \* dbn_get: offset of ptr in the buffer
  n,            \* dbn_get: bytes remaining from ptr
  num_messages, \* dbn_get: loop counter
  life,         \* "init", "connected", "started", "closed" as the caller sees it
  lastOp,       \* operation that is running or returned last
  ret,          \* its return value
  nFatal,       \* error-handler invocations with fatal = true during that call
  nMsgs,        \* records the decode loop dispatched during that call
  nInvoked,     \* message-handler invocations during that call
  badAt,        \* offset at which that call met a header with rlength < 4, or -1
  delivered,    \* every record the decode loop dispatched, in order
  hist          \* record of flags about the run so far

svars == <<stream, on_msg, wire, conn, sent, sock, sockOpen, ringInit, posted, cq,
           buffer, bufAlloc, leftover, pc, cur, ptr, n, num_messages, life,
           lastOp, ret, nFatal, nMsgs, nInvoked, badAt, delivered,
           hist>>

VARIABLES
  state,        \* discover->state
  error,        \* discover->error, NoText when NULL
  stop,         \* discover->stop
  roots,        \* discover->roots[0 .. num_roots - 1]
  sdefs,        \* discover->sdefs, the buckets a record can fall into
  num_options,  \* discover->num_options
  num_sdefs,    \* discover->num_sdefs
  wpc,          \* position of the worker thread
  mpc,          \* position of the thread that owns the discovery context
  prev,         \* value of discover->state before its last change
  handled,      \* number of records on_msg was invoked with
  smapLog,      \* the SMAP records on_msg was invoked with, in order
  sdefSeen,     \* instrument ids of the SDEF records on_msg was invoked with
  errWrites,    \* number of times discover->error was assigned
  callsAfterStop, \* dbn_get calls the worker began while discover->stop was set
  pending       \* the worker stored to roots, options or buckets and the
                \* store is not yet visible to the other threads

dvars == <<state, error, stop, roots, sdefs, num_options, num_sdefs, wpc,
           mpc, prev, handled, smapLog, sdefSeen, errWrites, callsAfterStop,
           pending>>

VARIABLES
  num_sessions,   \* dbn_multi->num_sessions
  clients,        \* dbn_multi->clients[0 .. num_sessions - 1], one record per session
  threads,        \* dbn_multi->threads: the slots of the array as allocated
  multi_stop,     \* dbn_multi->stop
  num_subscribed, \* dbn_multi->num_subscribed
  tpc,            \* position of the worker thread of each session
  tstart,         \* what dbn_start returned in each worker: "none", "ok", "failed"
  incs,           \* increments of num_subscribed made by each worker
  tcalls,         \* dbn_get calls each worker began while the stop flag was set
  spc,            \* position of the thread that owns the supervisor
  close_i,              \* loop index of dbn_multi_close_all
  fully,          \* value last returned by dbn_multi_is_fully_subscribed
  alloc,          \* which of the pointers clients, threads are not NULL
  closeCalls,     \* calls of dbn_multi_close_all that have returned
  ops             \* pthread_join, dbn_close and free calls made by the
                  \* dbn_multi_close_all call that is running or returned last

mvars == <<num_sessions, clients, threads, multi_stop, num_subscribed, tpc,
           tstart, incs, tcalls, spc, close_i, fully, alloc, closeCalls, ops>>

VARIABLES
  fmsg,           \* get_control_message_field: the message
  fkey,           \* get_control_message_field: the key
  fval,           \* what the call returned
  fpc             \* "off", "call" (before the call), "done"

fvars == <<fmsg, fkey, fval, fpc>>

VARIABLES
  hph,            \* dbn_connect after connect(): "recv", "field", "sodium", "send",
                  \* "check", "returned"; "off" when it does not run
  hrest,          \* characters of the current line the gateway has still to deliver
  hbuf,           \* receive_control_message: the characters read so far
  hmsgs,          \* the control messages received, in order
  hval,           \* the field value obtained last
  hsends,         \* for each line sent: the number of messages received before it
  hret,           \* return value of dbn_connect
  hfatal          \* invoke_error_handler(dbn, true, ...) calls

hvars == <<hph, hrest, hbuf, hmsgs, hval, hsends, hret, hfatal>>

VARIABLES
  tnum,           \* dbn_start: num_roots
  treplay,        \* dbn_start: replay
  tsuffix,        \* dbn_start: suffix
  tph,            \* dbn_start: "subscribe", "start_session", "preheader", "check",
                  \* "header", "returned"; "off" when it does not run
  ti,             \* the loop variable i of the subscription loop
  tlines,         \* the lines sent on the socket, in order
  tlog,           \* socket and ring operations in order: "subscribe",
                  \* "start_session", "recv" (one entry per run of recv calls), "submit"
  tgw,            \* the 8 bytes the gateway sends first, <<>> before it sends
  thead,          \* preheader_head
  thdr,           \* header_head
  tposted,        \* buffers with a receive request submitted by dbn_start
  tret,           \* return value of dbn_start
  tfatal          \* invoke_error_handler(dbn, true, ...) calls

tvars == <<tnum, treplay, tsuffix, tph, ti, tlines, tlog, tgw, thead, thdr,
           tposted, tret, tfatal>>

VARIABLES
  osym,           \* osi_parse: the string passed as symbol
  opc,            \* "call" before osi_parse runs, "done" after; "off" when it does not run
  ores            \* what osi_parse stored in *osi, with its return value in ok

ovars == <<osym, opc, ores>>

VARIABLES
  qtab,           \* the roots search alone: discover->roots
  qkey,           \* osi.root
  qpc,            \* "start" before the search, "loop" inside `while(true)`,
                  \* "done" after it; "off" when it does not run
  qindex,         \* index
  qstep,          \* step
  qlast,          \* last_index
  qpoint,         \* insertion_point
  qneeded,        \* insertion_needed
  qend            \* the branch that left the loop: "hit", "first", "last",
                  \* "reversal"; "empty" for an empty table, "no" before

qvars == <<qtab, qkey, qpc, qindex, qstep, qlast, qpoint, qneeded, qend>>

VARIABLES
  gkind,          \* the worker loops alone: "multi" (thread of dbn_multi.c) or
                  \* "discover" (worker of dbn_opra_discover.c)
  glink,          \* per session, the connection: "up", "eof", "reset"
  gposted,        \* per session, buffers with an outstanding receive request
  gcq,            \* per session, the completion queue: sequence of [buf, res]
  gpc,            \* per session, the worker: "loop" (at the test of the while),
                  \* "wait" (in dbn_get, at io_uring_wait_cqe), "drain" (in
                  \* dbn_get, past the checks of the result), "exited"; "none"
                  \* where no worker runs
  gcur,           \* per session, the buffer dbn_get is draining, or -1
  gstop,          \* the stop flag
  gstate,         \* discover->state
  gowner,         \* the thread that owns the engine: "run", "joining" (in
                  \* dbn_multi_close_all or destroy, at pthread_join), "returned"
  gfailed,        \* per session, a dbn_get call has failed with a fatal error
  gafter          \* per session, dbn_get calls begun after such a failure

gvars == <<gkind, glink, gposted, gcq, gpc, gcur, gstop, gstate, gowner,
           gfailed, gafter>>

pvars == <<fvars, hvars, tvars, ovars, qvars, gvars>>

vars == <<svars, dvars, mvars, pvars>>

leftover_count == Len(leftover)

AllBufs == {"buffer0", "buffer1", "leftover"}

NoHist == [fault |-> FALSE, overflow |-> FALSE, getFailed |-> FALSE,
           carries |-> {},
           closedForeign |-> FALSE, exitedUninit |-> FALSE]

\* dbn_init: memset to zero, then the handlers are stored; on_msg may be NULL.
SInit ==
  /\ stream \in Streams
  /\ on_msg \in BOOLEAN
  /\ wire = Flatten(RecordsOf(stream))
  /\ conn = "open"
  /\ sent = 0
  /\ sock = 0
  /\ sockOpen = FALSE
  /\ ringInit = FALSE
  /\ posted = {}
  /\ cq = <<>>
  /\ buffer = [b \in Buffers |-> <<>>]
  /\ bufAlloc = {}
  /\ leftover = <<>>
  /\ pc = "idle"
  /\ cur = -1
  /\ ptr = 0
  /\ n = 0
  /\ num_messages = 0
  /\ life = "init"
  /\ lastOp = "init"
  /\ ret = 0
  /\ nFatal = 0
  /\ nMsgs = 0
  /\ nInvoked = 0
  /\ badAt = -1
  /\ delivered = <<>>
  /\ hist = NoHist

(***************************************************************************)
(* dbn_connect.  The outcome names the step that fails, in code order.     *)
(***************************************************************************)
ConnectOrder == <<"socket", "setsockopt", "rcvbuf", "malloc", "resolve",
                  "connect", "recv0", "lsg_version", "recv1", "cram",
                  "sodium", "recv2", "success", "denied", "ok">>

ConnectOutcomes == { ConnectOrder[i] : i \in 1..Len(ConnectOrder) }

StepIdx(o) == CHOOSE i \in 1..Len(ConnectOrder) : ConnectOrder[i] = o

\* The step named `step` ran to completion when the outcome is o.
Passed(o, step) == StepIdx(o) > StepIdx(step)

\* Descriptors socket() can return: never 0, 1 or 2, which the process holds.
FreshFds == {3}

\* Value returned by dbn_connect.
ConnectRet(o) ==
  IF o = "ok" THEN 0
  ELSE IF o = "socket" THEN 0     \* `return false;`
  ELSE -1

\* Every failing step reports through invoke_error_handler(dbn, true, ...).
ConnectFatal(o) == IF o = "ok" THEN 0 ELSE 1

Connect(o) ==
  /\ pc = "idle" /\ life = "init"
  /\ lastOp' = "connect"
  /\ ret' = ConnectRet(o)
  /\ nFatal' = ConnectFatal(o)
  /\ nMsgs' = 0 /\ nInvoked' = 0
  /\ UNCHANGED badAt
  /\ \E fd \in FreshFds :
       /\ sock' = IF o = "socket" THEN -1 ELSE fd
       /\ sockOpen' = (o # "socket")
  /\ IF o = "malloc"
       THEN \E a \in (SUBSET AllBufs) \ {AllBufs} : bufAlloc' = a
       ELSE bufAlloc' = IF Passed(o, "malloc") THEN AllBufs ELSE {}
  /\ ringInit' = Passed(o, "malloc")
  /\ life' = IF ConnectRet(o) = 0 THEN "connected" ELSE "connfailed"
  /\ UNCHANGED <<stream, on_msg, wire, conn, sent, posted, cq, buffer, leftover, pc, cur,
                 ptr, n, num_messages, delivered, hist>>

(***************************************************************************)
(* dbn_start.  The subscription lines and start_session=0 are sent, then   *)
(* the stream preamble is read; the outcome names what the read meets.     *)
(***************************************************************************)
StartOutcomes == {"eof", "recv_err", "signature", "version", "hdr_eof",
                  "hdr_err", "ok"}

StartRet(o) == IF o = "ok" THEN 0 ELSE -1

StartFatal(o) == IF o = "ok" THEN 0 ELSE 1

\* Only buffer0 is submitted.
StartPosted_OnlyFirst(o) == IF o = "ok" THEN {0} ELSE {}

\* The two receive requests submitted at the end of dbn_start.
StartPosted(o) == IF o = "ok" THEN Buffers ELSE {}

Start(o) ==
  /\ pc = "idle" /\ life = "connected"
  \* recv() on the descriptor -1 fails
  /\ ~sockOpen => o = "recv_err"
  /\ lastOp' = "start"
  /\ ret' = StartRet(o)
  /\ nFatal' = StartFatal(o)
  /\ nMsgs' = 0 /\ nInvoked' = 0
  /\ UNCHANGED badAt
  /\ posted' = StartPosted(o)
  /\ life' = IF StartRet(o) = 0 THEN "started" ELSE "startfailed"
  /\ UNCHANGED <<stream, on_msg, wire, conn, sent, sock, sockOpen, ringInit, cq, buffer,
                 bufAlloc, leftover, pc, cur, ptr, n, num_messages,
                 delivered, hist>>

(***************************************************************************)
(* The kernel side of the ring.  A posted receive completes with the next  *)
(* k bytes of the wire (1 <= k <= capacity), with 0 once the peer has      *)
(* closed, or with an error.  Completions are queued in the order the      *)
(* bytes were taken from the socket.                                       *)
(***************************************************************************)
KernelDeliver(b, k) ==
  /\ b \in posted /\ conn = "open"
  /\ k >= 1 /\ k <= Capacity /\ sent + k <= Len(wire)
  /\ buffer' = [buffer EXCEPT ![b] = SubSeq(wire, sent + 1, sent + k)]
  /\ cq' = Append(cq, [buf |-> b, res |-> k])
  /\ posted' = posted \ {b}
  /\ sent' = sent + k
  /\ UNCHANGED <<badAt, stream, on_msg, wire, conn, sock, sockOpen, ringInit, bufAlloc, leftover,
                 pc, cur, ptr, n, num_messages, life, lastOp, ret, nFatal,
                 nMsgs, nInvoked, delivered, hist>>

KernelEof(b) ==
  /\ b \in posted /\ conn \in {"open", "eof"}
  /\ conn' = "eof"
  /\ cq' = Append(cq, [buf |-> b, res |-> 0])
  /\ posted' = posted \ {b}
  /\ hist' = [hist EXCEPT !.fault = TRUE]
  /\ UNCHANGED <<badAt, stream, on_msg, wire, sent, sock, sockOpen, ringInit, buffer, bufAlloc,
                 leftover, pc, cur, ptr, n, num_messages, life, lastOp, ret,
                 nFatal, nMsgs, nInvoked, delivered>>

KernelError(b) ==
  /\ b \in posted /\ conn \in {"open", "reset"}
  /\ conn' = "reset"
  /\ cq' = Append(cq, [buf |-> b, res |-> -1])
  /\ posted' = posted \ {b}
  /\ hist' = [hist EXCEPT !.fault = TRUE]
  /\ UNCHANGED <<badAt, stream, on_msg, wire, sent, sock, sockOpen, ringInit, buffer, bufAlloc,
                 leftover, pc, cur, ptr, n, num_messages, life, lastOp, ret,
                 nFatal, nMsgs, nInvoked, delivered>>

(***************************************************************************)
(* dbn_get.                                                                *)
(***************************************************************************)
\* `if (dbn->leftover_count + n > dbn->capacity)` under `if (dbn->leftover_count)`
Overflows(lc, res) == lc # 0 /\ lc + res > Capacity

\* The carry-over is put behind the new bytes instead of in front of them.
Prepend_Behind(lo, data) == data \o lo

\* memmove(buffer + leftover_count, buffer, n); memcpy(buffer, leftover, leftover_count)
Prepend(lo, data) == lo \o data

\* `int rlength = 4 * ptr[0];`
RLengthAt(buf, p) == LenUnit * buf[p + 1]

\* `if (n < 16) break;`
NoHeader(m) == m < HdrLen

\* The length check only rejects a zero length.
BadLength_ZeroOnly(rlength) == rlength < 1

\* `if (rlength < 16)`
BadLength(rlength) == rlength < HdrLen

\* The loop breaks on a record that is exactly complete.
NoMessage_OffByOne(m, rlength) == m <= rlength

\* `if (n < rlength) break;`
NoMessage(m, rlength) == m < rlength

\* `if (n) { memcpy(dbn->leftover, ptr, n); dbn->leftover_count = n; }`
KeepLeftover(buf, p, m, lo) == IF m # 0 THEN SubSeq(buf, p + 1, p + m) ELSE lo

\* The caller may call dbn_get once dbn_start has returned 0.
CanGet == pc = "idle" /\ life = "started"

\* Every failure of the wait is reported, a signal too.
WaitRet_AlwaysFail(e) == -1

\* `if (m < 0) { if (m == -EINTR) return 0; ... return -1; }`
WaitRet(e) == IF e = "EINTR" THEN 0 ELSE -1

\* invoke_error_handler(dbn, true, ...) runs on the path that returns -1.
WaitFatal(e) == IF WaitRet(e) = 0 THEN 0 ELSE 1

\* io_uring_wait_cqe is interrupted by a signal: return 0.
GetInterrupted ==
  /\ CanGet /\ cq = <<>>
  /\ lastOp' = "get" /\ ret' = WaitRet("EINTR") /\ nFatal' = WaitFatal("EINTR")
  /\ nMsgs' = 0 /\ nInvoked' = 0 /\ badAt' = -1
  /\ UNCHANGED <<stream, on_msg, wire, conn, sent, sock, sockOpen, ringInit, posted, cq,
                 buffer, bufAlloc, leftover, pc, cur, ptr, n, num_messages,
                 life, delivered, hist>>

\* io_uring_wait_cqe fails otherwise: fatal, return -1.
GetWaitError ==
  /\ CanGet /\ cq = <<>>
  /\ lastOp' = "get" /\ ret' = WaitRet("EIO") /\ nFatal' = WaitFatal("EIO")
  /\ nMsgs' = 0 /\ nInvoked' = 0 /\ badAt' = -1
  /\ hist' = [hist EXCEPT !.fault = TRUE, !.getFailed = TRUE]
  /\ UNCHANGED <<stream, on_msg, wire, conn, sent, sock, sockOpen, ringInit, posted, cq,
                 buffer, bufAlloc, leftover, pc, cur, ptr, n, num_messages,
                 life, delivered>>

\* Only a negative result is taken as a failure of the receive.
RecvFailed_ErrorOnly(res) == res < 0

\* `if (n == 0) {...; return -1;} else if (n < 0) {...; return -1;}`
RecvFailed(res) == res <= 0

\* A completion is taken: EOF, receive error and overflow return -1; else
\* the carry-over is prepended and the decode loop is entered.
GetBegin ==
  /\ CanGet /\ cq # <<>>
  /\ LET cqe == Head(cq)
         fail == RecvFailed(cqe.res) \/ Overflows(leftover_count, cqe.res)
     IN /\ cq' = Tail(cq)
        /\ lastOp' = "get" /\ nMsgs' = 0 /\ nInvoked' = 0 /\ badAt' = -1
        /\ IF fail
             THEN /\ ret' = -1 /\ nFatal' = 1
                  /\ hist' = [hist EXCEPT !.getFailed = TRUE,
                                !.overflow = @ \/ cqe.res > 0]
                  /\ buffer' = [buffer EXCEPT ![cqe.buf] = <<>>]
                  /\ UNCHANGED <<leftover, pc, cur, ptr, n, num_messages>>
             ELSE /\ buffer' = [buffer EXCEPT ![cqe.buf] = Prepend(leftover, @)]
                  /\ n' = cqe.res + leftover_count
                  /\ leftover' = <<>>
                  /\ cur' = cqe.buf
                  /\ ptr' = 0
                  /\ num_messages' = 0
                  /\ pc' = "drain"
                  /\ nFatal' = 0
                  /\ UNCHANGED <<ret, hist>>
  /\ UNCHANGED <<stream, on_msg, wire, conn, sent, sock, sockOpen, ringInit, posted,
                 bufAlloc, life, delivered>>

\* dbn_get returns from its loop: its locals die, and the bytes of the
\* buffer it drained are never read again.
Return ==
  /\ buffer' = [buffer EXCEPT ![cur] = <<>>]
  /\ cur' = -1 /\ ptr' = 0 /\ n' = 0 /\ num_messages' = 0

\* The handler is never called.
Invoked_Never(handler) == FALSE

\* `if (dbn->on_msg) dbn->on_msg(dbn, (dbn_hdr_t *)ptr);`
Invoked(handler) == handler

\* One iteration of the decode loop that dispatches a record.
GetDispatch ==
  /\ pc = "drain"
  /\ ~NoHeader(n)
  /\ LET rlength == RLengthAt(buffer[cur], ptr)
     IN /\ ~BadLength(rlength)
        /\ ~NoMessage(n, rlength)
        /\ delivered' = Append(delivered, SubSeq(buffer[cur], ptr + 1, ptr + rlength))
        /\ ptr' = ptr + rlength
        /\ n' = n - rlength
  /\ num_messages' = num_messages + 1
  /\ nMsgs' = nMsgs + 1
  /\ nInvoked' = IF Invoked(on_msg) THEN nInvoked + 1 ELSE nInvoked
  /\ UNCHANGED <<badAt, stream, on_msg, wire, conn, sent, sock, sockOpen, ringInit, posted, cq,
                 buffer, bufAlloc, leftover, pc, cur, life, lastOp, ret,
                 nFatal, hist>>

\* The iteration that meets a header with rlength < 4: fatal, return -1.
GetBadLength ==
  /\ pc = "drain"
  /\ ~NoHeader(n)
  /\ BadLength(RLengthAt(buffer[cur], ptr))
  /\ ret' = -1
  /\ nFatal' = nFatal + 1
  /\ pc' = "idle"
  /\ badAt' = ptr
  /\ hist' = [hist EXCEPT !.getFailed = TRUE]
  /\ Return
  /\ UNCHANGED <<stream, on_msg, wire, conn, sent, sock, sockOpen, ringInit, posted, cq,
                 bufAlloc, leftover, life, lastOp, nMsgs, nInvoked, delivered>>

\* Both buffers are handed to the kernel again.
Resubmit_Both(p, b) == Buffers

\* io_uring_prep_recv(sqe, dbn->sock, buffer, ...); io_uring_submit: the
\* buffer that was drained is posted again.
Resubmit(p, b) == p \cup {b}

\* The loop breaks: keep the residue, resubmit the buffer, return the count.
GetFinish ==
  /\ pc = "drain"
  /\ \/ NoHeader(n)
     \/ /\ ~NoHeader(n)
        /\ ~BadLength(RLengthAt(buffer[cur], ptr))
        /\ NoMessage(n, RLengthAt(buffer[cur], ptr))
  /\ leftover' = KeepLeftover(buffer[cur], ptr, n, leftover)
  /\ posted' = Resubmit(posted, cur)
  /\ ret' = num_messages
  /\ pc' = "idle"
  /\ hist' = [hist EXCEPT !.carries = IF n = 0 THEN @
                             ELSE @ \cup {IF n < HdrLen THEN "hdr" ELSE "body"}]
  /\ Return
  /\ UNCHANGED <<badAt, stream, on_msg, wire, conn, sent, sock, sockOpen, ringInit, cq, bufAlloc,
                 life, lastOp, nFatal, nMsgs, nInvoked, delivered>>

(***************************************************************************)
(* dbn_close: io_uring_queue_exit, close(sock), free, memset.              *)
(***************************************************************************)
\* io_uring_queue_exit(&dbn->ring) runs whether or not the ring was set up.
ExitsUninitRing(ri) == ~ri

\* close(dbn->sock) closes a descriptor of the process that the session did
\* not open: sock is still the 0 of the memset.
ClosesForeign(s, open) == s >= 0 /\ ~(open /\ s \in FreshFds)

Close ==
  /\ pc = "idle" /\ life # "closed"
  /\ lastOp' = "close" /\ ret' = 0 /\ nFatal' = 0 /\ nMsgs' = 0 /\ nInvoked' = 0 /\ badAt' = -1
  /\ hist' = [hist EXCEPT !.exitedUninit = ExitsUninitRing(ringInit),
                          !.closedForeign = ClosesForeign(sock, sockOpen)]
  /\ ringInit' = FALSE
  /\ posted' = {}
  /\ cq' = <<>>
  /\ sockOpen' = FALSE
  /\ bufAlloc' = {}
  /\ sock' = 0
  /\ leftover' = <<>>
  /\ life' = "closed"
  /\ on_msg' = FALSE
  /\ UNCHANGED <<stream, wire, conn, sent, buffer, pc, cur, ptr, n, num_messages,
                 delivered>>

SNext ==
  \/ \E o \in ConnectOutcomes : Connect(o)
  \/ \E o \in StartOutcomes : Start(o)
  \/ \E b \in Buffers, p \in CutPoints(stream) : KernelDeliver(b, p - sent)
  \/ \E b \in Buffers : KernelEof(b)
  \/ \E b \in Buffers : KernelError(b)
  \/ GetInterrupted
  \/ GetWaitError
  \/ GetBegin
  \/ GetDispatch
  \/ GetBadLength
  \/ GetFinish
  \/ Close


(***************************************************************************)
(* The OPRA discovery engine.                                              *)
(***************************************************************************)
DBN_RTYPE_MBP1 == 1
DBN_RTYPE_SDEF == 19
DBN_RTYPE_EMSG == 21
DBN_RTYPE_SMAP == 22
DBN_RTYPE_SMSG == 23

DBN_OPRA_DISCOVER_NUM_SDEF_BUCKETS == 50000

\* Initial capacities of a root's option list and of a bucket.
InitCapOptions == 64
InitCapBucket == 4

\* Strings are sequences of character codes.
AAPL == <<65, 65, 80, 76>>
MSFT == <<77, 83, 70, 84>>
SPY == <<83, 80, 89>>

\* "250815C00100000" and "250815P00100000"
CallTail == <<50, 53, 48, 56, 49, 53, 67, 48, 48, 49, 48, 48, 48, 48, 48>>
PutTail == <<50, 53, 48, 56, 49, 53, 80, 48, 48, 49, 48, 48, 48, 48, 48>>

\* The root padded with spaces to 6 characters.
Pad6(r) == r \o [i \in 1..(6 - Len(r)) |-> 32]

FinishedText == "Finished definition replay"

NULL == <<>>

NoText == "(null)"

Msg(rtype, id, sym, text) ==
  [rtype |-> rtype, instrument_id |-> id, stype_out |-> sym, msg |-> text]

\* The records the gateway may send to the discovery session.
SmapMessages ==
  { Msg(DBN_RTYPE_SMAP, 1, Pad6(AAPL) \o CallTail, ""),
    Msg(DBN_RTYPE_SMAP, 50001, Pad6(AAPL) \o PutTail, ""),
    Msg(DBN_RTYPE_SMAP, 2, Pad6(MSFT) \o CallTail, ""),
    Msg(DBN_RTYPE_SMAP, 3, Pad6(SPY) \o CallTail, ""),
    Msg(DBN_RTYPE_SMAP, 3, SPY, "") }

SdefMessages ==
  { Msg(DBN_RTYPE_SDEF, id, <<>>, "") : id \in {1, 2, 50001} }

OtherMessages ==
  { Msg(DBN_RTYPE_SMSG, 0, <<>>, FinishedText),
    Msg(DBN_RTYPE_SMSG, 0, <<>>, "Heartbeat"),
    Msg(DBN_RTYPE_EMSG, 0, <<>>, "Bad request"),
    Msg(DBN_RTYPE_MBP1, 1, <<>>, "") }

Messages == SmapMessages \cup SdefMessages \cup OtherMessages

BucketOf(id) == id % DBN_OPRA_DISCOVER_NUM_SDEF_BUCKETS

\* The buckets a record of Messages can fall into; every other bucket stays empty.
BucketIdx == { BucketOf(m.instrument_id) : m \in Messages }

\* The C string held in a char array: the characters before the first NUL.
RECURSIVE CStr(_)
CStr(a) == IF a = <<>> \/ Head(a) = 0 THEN <<>>
           ELSE <<Head(a)>> \o CStr(Tail(a))

\* isspace: space, \t, \n, \v, \f, \r.
RECURSIVE SkipSpace(_)
SkipSpace(s) == IF s # <<>> /\ Head(s) \in {32, 9, 10, 11, 12, 13} THEN SkipSpace(Tail(s))
                ELSE s

\* The value of the leading decimal digits of s, continued from acc.
RECURSIVE Digits(_, _)
Digits(s, acc) == IF s # <<>> /\ Head(s) \in 48..57
                    THEN Digits(Tail(s), 10 * acc + (Head(s) - 48))
                    ELSE acc

\* strtol(s, NULL, 10): white space, an optional sign, then digits up to
\* the first other character.
strtol(s) ==
  LET t == SkipSpace(s)
      signed == t # <<>> /\ Head(t) \in {43, 45}
      v == Digits(IF signed THEN Tail(t) ELSE t, 0)
  IN IF signed /\ Head(t) = 45 THEN 0 - v ELSE v

\* Conversion of a long to uint8_t.
Uint8(v) == v % 256

\* A 64-bit value is written as three groups of nine decimal digits, most
\* significant first: <<a, b, c>> is a * 10^18 + b * 10^9 + c.
\* The strike is stored as parsed.
Scaled_Not(v) == <<0, 0, v>>

\* `1000000L * v` stored in a uint64_t; a negative product wraps around
\* 2^64 = 18 446744073 709551616.
Scaled(v) ==
  LET a == IF v < 0 THEN 0 - v ELSE v
      hi == a \div 1000
      lo == (a % 1000) * 1000000
  IN IF v >= 0 THEN <<0, hi, lo>>
     ELSE IF lo <= 709551616 THEN <<18, 446744073 - hi, 709551616 - lo>>
     ELSE <<18, 446744073 - hi - 1, 709551616 - lo + 1000000000>>

\* The osi_t no call has written.
NoOsi ==
  [ok |-> FALSE, root |-> <<>>, exp_year |-> 0, exp_month |-> 0, exp_day |-> 0,
   is_call |-> FALSE, strike |-> <<0, 0, 0>>]

\* osi_parse: reject unless 21 characters; root = bytes 0..5 with every
\* space replaced by NUL; the numbers by strtol.
osi_parse(symbol) ==
  IF Len(symbol) # 21
    THEN NoOsi
    ELSE [ok |-> TRUE,
          root |-> CStr([i \in 1..6 |-> IF symbol[i] = 32 THEN 0 ELSE symbol[i]]),
          exp_year |-> Uint8(strtol(SubSeq(symbol, 7, 8))),
          exp_month |-> Uint8(strtol(SubSeq(symbol, 9, 10))),
          exp_day |-> Uint8(strtol(SubSeq(symbol, 11, 12))),
          is_call |-> (symbol[13] = 67),
          strike |-> Scaled(strtol(SubSeq(symbol, 14, 21)))]

\* strcmp reduced to its sign.
RECURSIVE strcmp(_, _)
strcmp(a, b) ==
  IF a = <<>> /\ b = <<>> THEN 0
  ELSE IF a = <<>> THEN -1
  ELSE IF b = <<>> THEN 1
  ELSE IF Head(a) < Head(b) THEN -1
  ELSE IF Head(a) > Head(b) THEN 1
  ELSE strcmp(Tail(a), Tail(b))

\* The halved step is not kept from reaching 0.
HalfStep_NoFloor(step) == step \div 2

\* `step /= 2; if (!step) step = 1;`
HalfStep(step) == IF step \div 2 = 0 THEN 1 ELSE step \div 2

\* The loop of the roots search, indices counted from 0 as in the code.
RECURSIVE SearchLoop(_, _, _, _, _)
SearchLoop(rts, key, index, step, last_index) ==
  LET d == strcmp(key, rts[index + 1].root)
      num_roots == Len(rts)
  IN IF d = 0
       THEN [insertion_point |-> index, insertion_needed |-> FALSE]
     ELSE IF d < 0
       THEN IF index = 0
              THEN [insertion_point |-> 0, insertion_needed |-> TRUE]
            ELSE IF last_index = index - 1
              THEN [insertion_point |-> index, insertion_needed |-> TRUE]
            ELSE SearchLoop(rts, key,
                            IF HalfStep(step) > index THEN 0 ELSE index - HalfStep(step),
                            HalfStep(step), index)
     ELSE IF index = num_roots - 1
            THEN [insertion_point |-> num_roots, insertion_needed |-> TRUE]
          ELSE IF last_index = index + 1
            THEN [insertion_point |-> index + 1, insertion_needed |-> TRUE]
          ELSE SearchLoop(rts, key,
                          IF index + HalfStep(step) >= num_roots THEN num_roots - 1
                          ELSE index + HalfStep(step),
                          HalfStep(step), index)

\* The search of on_msg for the insertion point of a root.
Search(rts, key) ==
  IF Len(rts) = 0
    THEN [insertion_point |-> 0, insertion_needed |-> TRUE]
    ELSE SearchLoop(rts, key, Len(rts) \div 2, Len(rts) \div 2, 0)

\* memmove the tail one slot right and place a zeroed entry holding the root.
InsertRoot(rts, at, key) ==
  SubSeq(rts, 1, at)
    \o <<[root |-> key, cap_options |-> 0, options |-> <<>>]>>
    \o SubSeq(rts, at + 1, Len(rts))

\* The capacity never grows.
Grow_Never(cap, count, initial) == cap

\* `cap = cap ? 2 * cap : initial` when the sequence is full.
Grow(cap, count, initial) ==
  IF count = cap THEN (IF cap # 0 THEN 2 * cap ELSE initial) ELSE cap

\* Append the option {instrument_id, symbol, sdef = NULL} to root number `at`.
AddOption(rts, at, id, osi) ==
  [rts EXCEPT ![at + 1] =
     [@ EXCEPT !.cap_options = Grow(@, Len(rts[at + 1].options), InitCapOptions),
               !.options = Append(@, [instrument_id |-> id, symbol |-> osi,
                                      sdef |-> NULL])]]

\* The roots table after on_msg has handled an SMAP record.
OnSmap(rts, m) ==
  LET osi == osi_parse(m.stype_out)
      f == Search(rts, osi.root)
  IN IF ~osi.ok THEN rts
     ELSE AddOption(IF f.insertion_needed
                      THEN InsertRoot(rts, f.insertion_point, osi.root)
                      ELSE rts,
                    f.insertion_point, m.instrument_id, osi)

\* The bucket keeps only the record that arrived last.
OnSdef_Replace(sd, m) ==
  [sd EXCEPT ![BucketOf(m.instrument_id)] =
     [capacity |-> Grow(@.capacity, Len(@.sdefs), InitCapBucket),
      sdefs |-> <<m>>]]

\* The bucket table after on_msg has handled an SDEF record.
OnSdef(sd, m) ==
  [sd EXCEPT ![BucketOf(m.instrument_id)] =
     [capacity |-> Grow(@.capacity, Len(@.sdefs), InitCapBucket),
      sdefs |-> Append(@.sdefs, m)]]

\* The scan keeps the last slot of the bucket that holds a definition of
\* this instrument.
FindSdef_Latest(sd, id) ==
  LET bucket == sd[BucketOf(id)].sdefs
      hits == { k \in 1..Len(bucket) : bucket[k].instrument_id = id }
  IN IF hits = {} THEN NULL
     ELSE <<BucketOf(id), CHOOSE k \in hits : \A j \in hits : k >= j>>

\* The scan takes the first slot of the bucket without comparing the id.
FindSdef_AnySlot(sd, id) ==
  IF sd[BucketOf(id)].sdefs = <<>> THEN NULL ELSE <<BucketOf(id), 1>>

\* The first slot of the bucket that holds a definition of this instrument.
FindSdef(sd, id) ==
  LET bucket == sd[BucketOf(id)].sdefs
      hits == { k \in 1..Len(bucket) : bucket[k].instrument_id = id }
  IN IF hits = {} THEN NULL
     ELSE <<BucketOf(id), CHOOSE k \in hits : \A j \in hits : k <= j>>

\* The cross-reference pass of the worker.  A slot that is not found keeps
\* the pointer it had.
Xref(rts, sd) ==
  [i \in 1..Len(rts) |->
     [rts[i] EXCEPT !.options =
        [j \in 1..Len(rts[i].options) |->
           LET o == rts[i].options[j]
               hit == FindSdef(sd, o.instrument_id)
           IN IF hit = NULL THEN o ELSE [o EXCEPT !.sdef = hit]]]]

\* Messages the model lets on_msg handle in one run.
MaxMsgs == 5

\* dbn_get calls a worker may begin after the stop flag was set before the
\* model stops following it.
MaxCalls == 2

\* SMAP records and SDEF records among them.
MaxSmaps == 3
MaxSdefs == 2

num_roots == Len(roots)

EmptyBuckets == [b \in BucketIdx |-> [capacity |-> 0, sdefs |-> <<>>]]

\* dbn_opra_discover_init: memset to zero, dbn_init with on_error and on_msg.
DInit ==
  /\ state = "NOT_STARTED"
  /\ error = NoText
  /\ stop = FALSE
  /\ roots = <<>>
  /\ sdefs = EmptyBuckets
  /\ num_options = 0
  /\ num_sdefs = 0
  /\ wpc = "none"
  /\ mpc = "init"
  /\ prev = "NOT_STARTED"
  /\ handled = 0
  /\ smapLog = <<>>
  /\ sdefSeen = {}
  /\ errWrites = 0
  /\ callsAfterStop = 0
  /\ pending = FALSE

\* A write of discover->state.
SetState(new) ==
  /\ state' = new
  /\ prev' = IF new # state THEN state ELSE prev

\* on_error(dbn, fatal = true, msg)
OnError(text) ==
  /\ error' = text
  /\ errWrites' = errWrites + 1
  /\ SetState("ERROR")

\* `if (!strcmp(smsg->msg, "Finished definition replay")) discover->state = ..._XREF;`
FinishedState == "XREF"

\* Every system message ends the replay.
IsFinished_Any(text) == TRUE

\* `!strcmp(smsg->msg, "Finished definition replay")`
IsFinished(text) == text = FinishedText

\* on_msg(dbn, msg)
OnMsg(m) ==
  /\ handled' = handled + 1
  /\ smapLog' = IF m.rtype = DBN_RTYPE_SMAP THEN Append(smapLog, m) ELSE smapLog
  /\ sdefSeen' = IF m.rtype = DBN_RTYPE_SDEF
                   THEN sdefSeen \cup {m.instrument_id} ELSE sdefSeen
  /\ IF m.rtype = DBN_RTYPE_SMAP
       THEN /\ roots' = OnSmap(roots, m)
            /\ num_options' = IF osi_parse(m.stype_out).ok
                                THEN num_options + 1 ELSE num_options
            /\ UNCHANGED <<sdefs, num_sdefs, state, prev, error, errWrites>>
     ELSE IF m.rtype = DBN_RTYPE_SDEF
       THEN /\ sdefs' = OnSdef(sdefs, m)
            /\ num_sdefs' = num_sdefs + 1
            /\ UNCHANGED <<roots, num_options, state, prev, error, errWrites>>
     ELSE IF m.rtype = DBN_RTYPE_SMSG
       THEN /\ IF IsFinished(m.msg)
                 THEN SetState(FinishedState)
                 ELSE UNCHANGED <<state, prev>>
            /\ UNCHANGED <<roots, num_options, sdefs, num_sdefs, error, errWrites>>
     ELSE IF m.rtype = DBN_RTYPE_EMSG
       THEN /\ OnError(m.msg)
            /\ UNCHANGED <<roots, num_options, sdefs, num_sdefs>>
     ELSE UNCHANGED <<roots, num_options, sdefs, num_sdefs, state, prev, error, errWrites>>

\* dbn_opra_discover_start: dbn_connect, then CONNECTED and the worker.
DiscoverStart(o) ==
  /\ mpc = "init"
  /\ Connect(o)
  /\ mpc' = "started"
  /\ IF ConnectRet(o) # 0
       THEN /\ OnError(o)
            /\ UNCHANGED wpc
       ELSE /\ error' = IF ConnectFatal(o) = 1 THEN o ELSE error
            /\ errWrites' = errWrites + ConnectFatal(o)
            /\ state' = "CONNECTED"
            /\ prev' = IF ConnectFatal(o) = 1 THEN "ERROR" ELSE state
            /\ wpc' = "start"
  /\ UNCHANGED <<stop, roots, sdefs, num_options, num_sdefs, handled, smapLog, sdefSeen,
                 callsAfterStop>>
  /\ UNCHANGED pending
  /\ UNCHANGED <<mvars, pvars>>

\* worker: dbn_start; on failure return, else SUBSCRIBED.
WorkerStart(o) ==
  /\ wpc = "start"
  /\ Start(o)
  /\ IF StartRet(o) # 0
       THEN /\ OnError(o)
            /\ wpc' = "exited"
       ELSE /\ SetState("SUBSCRIBED")
            /\ wpc' = "loop"
            /\ UNCHANGED <<error, errWrites>>
  /\ UNCHANGED <<stop, roots, sdefs, num_options, num_sdefs, mpc, handled, smapLog, sdefSeen,
                 callsAfterStop>>
  /\ UNCHANGED pending
  /\ UNCHANGED <<mvars, pvars>>

\* The loop goes on whatever the stop flag says.
KeepGetting_IgnoreStop(st, stp) == st = "SUBSCRIBED"

\* `while (!discover->stop && discover->state == SUBSCRIBED)`
KeepGetting(st, stp) == ~stp /\ st = "SUBSCRIBED"

WorkerLoop ==
  /\ wpc = "loop"
  /\ wpc' = IF KeepGetting(state, stop) THEN "call" ELSE "xref"
  /\ UNCHANGED <<svars, state, error, errWrites, stop, roots, sdefs, num_options,
                 num_sdefs, mpc, prev, handled, smapLog, sdefSeen,
                 callsAfterStop>>
  /\ UNCHANGED pending
  /\ UNCHANGED <<mvars, pvars>>

\* The worker enters dbn_get.
WorkerCall ==
  /\ wpc = "call"
  /\ callsAfterStop < MaxCalls
  /\ wpc' = "get"
  /\ callsAfterStop' = IF stop THEN callsAfterStop + 1 ELSE callsAfterStop
  /\ UNCHANGED <<svars, state, error, errWrites, stop, roots, sdefs,
                 num_options, num_sdefs, mpc, prev, handled, smapLog, sdefSeen>>
  /\ UNCHANGED pending
  /\ UNCHANGED <<mvars, pvars>>

\* on_msg stores to the tables while it handles the record: an SMAP whose
\* symbol parses, or an SDEF.
Stored(m) ==
  \/ m.rtype = DBN_RTYPE_SMAP /\ osi_parse(m.stype_out).ok
  \/ m.rtype = DBN_RTYPE_SDEF

\* Inside dbn_get: one record is dispatched to on_msg.
WorkerGetMsg(m) ==
  /\ wpc \in {"get", "drain"}
  /\ handled < MaxMsgs
  /\ m.rtype = DBN_RTYPE_SMAP => Len(smapLog) < MaxSmaps
  /\ m.rtype = DBN_RTYPE_SDEF => num_sdefs < MaxSdefs
  /\ OnMsg(m)
  /\ wpc' = "drain"
  /\ UNCHANGED <<svars, stop, mpc, callsAfterStop>>
  /\ pending' = (pending \/ Stored(m))
  /\ UNCHANGED <<mvars, pvars>>

\* dbn_get returns a count (or 0 after a signal).
WorkerGetReturn ==
  /\ wpc \in {"get", "drain"}
  /\ wpc' = "loop"
  /\ UNCHANGED <<svars, state, error, errWrites, stop, roots, sdefs, num_options,
                 num_sdefs, mpc, prev, handled, smapLog, sdefSeen,
                 callsAfterStop>>
  /\ UNCHANGED pending
  /\ UNCHANGED <<mvars, pvars>>

\* Fatal errors of dbn_get: met when the completion is taken, or in the
\* drain loop.
GetErrors == {"Connection closed unexpectedly", "Bad message length 8"}

DrainErrors == {"Bad message length 8"}

\* dbn_get reports a fatal error and returns -1.
WorkerGetFatal(text) ==
  /\ wpc \in {"get", "drain"}
  /\ wpc = "drain" => text \in DrainErrors
  /\ OnError(text)
  /\ wpc' = "loop"
  /\ UNCHANGED <<svars, stop, roots, sdefs, num_options, num_sdefs, mpc,
                 handled, smapLog, sdefSeen,
                 callsAfterStop>>
  /\ UNCHANGED pending
  /\ UNCHANGED <<mvars, pvars>>

\* The cross-reference loops of the worker.
WorkerXref ==
  /\ wpc = "xref"
  /\ roots' = Xref(roots, sdefs)
  /\ wpc' = "done"
  /\ UNCHANGED <<svars, state, error, errWrites, stop, sdefs, num_options, num_sdefs,
                 mpc, prev, handled, smapLog, sdefSeen,
                 callsAfterStop>>
  /\ pending' = (pending \/ roots' # roots)
  /\ UNCHANGED <<mvars, pvars>>

\* `discover->state = DBN_OPRA_DISCOVER_STATE_DONE; return NULL;`
WorkerDone ==
  /\ wpc = "done"
  /\ SetState("DONE")
  /\ wpc' = "exited"
  /\ UNCHANGED <<svars, error, errWrites, stop, roots, sdefs, num_options, num_sdefs,
                 mpc, handled, smapLog, sdefSeen,
                 callsAfterStop>>
  /\ UNCHANGED pending
  /\ UNCHANGED <<mvars, pvars>>

\* The stores of the worker to the tables become visible to the other
\* threads.  state, roots and sdefs are ordinary fields written with
\* ordinary stores: nothing orders the store of DONE after the stores to the
\* tables for a thread that reads them, so they may become visible before
\* or after a store to state does.  pthread_join orders them before the
\* return of the join.
Visible ==
  /\ pending
  /\ pending' = FALSE
  /\ UNCHANGED <<svars, state, error, errWrites, stop, roots, sdefs,
                 num_options, num_sdefs, wpc, mpc, prev, handled, smapLog,
                 sdefSeen, callsAfterStop>>
  /\ UNCHANGED <<mvars, pvars>>

\* dbn_opra_discover_destroy up to pthread_join.
DestroyBegin ==
  /\ mpc \in {"init", "started"}
  /\ IF state # "NOT_STARTED"
       THEN stop' = TRUE /\ mpc' = "joining"
       ELSE UNCHANGED <<stop, mpc>>
  /\ UNCHANGED <<svars, state, error, errWrites, roots, sdefs, num_options, num_sdefs,
                 wpc, prev, handled, smapLog, sdefSeen,
                 callsAfterStop>>
  /\ UNCHANGED pending
  /\ UNCHANGED <<mvars, pvars>>

\* pthread_join on discover->thread when no thread was ever created: the
\* handle is the zero left by memset, and the call may fault instead of
\* returning.
DestroyJoinFault ==
  /\ mpc = "joining"
  /\ wpc = "none"
  /\ mpc' = "crashed"
  /\ UNCHANGED <<svars, state, error, errWrites, stop, roots, sdefs,
                 num_options, num_sdefs, wpc, prev, handled, smapLog,
                 sdefSeen, callsAfterStop>>
  /\ UNCHANGED pending
  /\ UNCHANGED <<mvars, pvars>>

\* pthread_join returns: dbn_close, free the tables, memset.
DestroyFinish ==
  /\ mpc = "joining"
  /\ wpc \in {"exited", "none"}
  /\ Close
  /\ state' = "NOT_STARTED"
  /\ error' = NoText
  /\ stop' = FALSE
  /\ roots' = <<>>
  /\ sdefs' = EmptyBuckets
  /\ num_options' = 0
  /\ num_sdefs' = 0
  /\ mpc' = "destroyed"
  /\ UNCHANGED <<wpc, prev, handled, smapLog, sdefSeen, errWrites,
                 callsAfterStop>>
  /\ pending' = FALSE
  /\ UNCHANGED <<mvars, pvars>>

DNext ==
  \/ \E o \in ConnectOutcomes : DiscoverStart(o)
  \/ \E o \in StartOutcomes : WorkerStart(o)
  \/ WorkerLoop
  \/ WorkerCall
  \/ \E m \in Messages : WorkerGetMsg(m)
  \/ WorkerGetReturn
  \/ \E t \in GetErrors : WorkerGetFatal(t)
  \/ WorkerXref
  \/ WorkerDone
  \/ Visible
  \/ DestroyBegin
  \/ DestroyJoinFault
  \/ DestroyFinish

(***************************************************************************)
(* The multi-session supervisor (dbn_multi).  Sessions and their workers   *)
(* are numbered from 1; slot i of clients and threads is index i - 1 of    *)
(* the code.                                                               *)
(***************************************************************************)
\* Sessions the owner adds in one run.
MaxSessions == 2

Sessions == 1..MaxSessions

\* Content of a slot of the threads array that pthread_create never filled.
Garbage == 0

\* Calls of dbn_multi_close_all the owner makes in one run.
MaxCloseCalls == 2

NoOps == [joins |-> 0, closes |-> 0, frees |-> 0]

\* dbn_multi_init: memset to zero.
MInit ==
  /\ num_sessions = 0
  /\ clients = <<>>
  /\ threads = <<>>
  /\ multi_stop = FALSE
  /\ num_subscribed = 0
  /\ tpc = [i \in Sessions |-> "none"]
  /\ tstart = [i \in Sessions |-> "none"]
  /\ incs = [i \in Sessions |-> 0]
  /\ tcalls = [i \in Sessions |-> 0]
  /\ spc = "idle"
  /\ close_i = 0
  /\ fully = FALSE
  /\ alloc = {}
  /\ closeCalls = 0
  /\ ops = NoOps

\* realloc of the threads array to `len` slots: the old slots keep their
\* content, the new ones are not initialised.
ReallocThreads(thr, len) ==
  [i \in 1..len |-> IF i <= Len(thr) THEN thr[i] ELSE Garbage]

\* dbn_multi_connect_and_start: the session is counted and its client
\* created first; the worker is created only when dbn_connect returned 0.
MultiConnectAndStart(o) ==
  /\ spc = "idle"
  /\ num_sessions < MaxSessions
  /\ num_sessions' = num_sessions + 1
  /\ clients' = Append(clients, [ret |-> ConnectRet(o),
                                 sockOk |-> (o # "socket"),
                                 closed |-> FALSE])
  /\ IF ConnectRet(o) # 0
       THEN UNCHANGED <<threads, tpc>>
       ELSE /\ threads' = [ReallocThreads(threads, num_sessions')
                             EXCEPT ![num_sessions'] = num_sessions']
            /\ tpc' = [tpc EXCEPT ![num_sessions'] = "start"]
  /\ alloc' = alloc \cup (IF ConnectRet(o) # 0 THEN {"clients"}
                                              ELSE {"clients", "threads"})
  /\ UNCHANGED <<multi_stop, num_subscribed, tstart, incs, tcalls, spc, close_i,
                 fully, closeCalls, ops>>
  /\ UNCHANGED <<svars, dvars, pvars>>

\* The worker counts itself whatever dbn_start returned.
AfterStart_Always(r) == "count"

\* thread: `if (dbn_start(...)) return NULL;`
AfterStart(r) == IF r # 0 THEN "exited" ELSE "count"

\* thread: the call of dbn_start.
MultiThreadStart(i, o) ==
  /\ tpc[i] = "start"
  /\ ~clients[i].sockOk => o = "recv_err"
  /\ tpc' = [tpc EXCEPT ![i] = AfterStart(StartRet(o))]
  /\ tstart' = [tstart EXCEPT ![i] = IF StartRet(o) = 0 THEN "ok" ELSE "failed"]
  /\ UNCHANGED <<num_sessions, clients, threads, multi_stop, num_subscribed,
                 incs, tcalls, spc, close_i, fully, alloc, closeCalls, ops>>
  /\ UNCHANGED <<svars, dvars, pvars>>

\* thread: `atomic_fetch_add(&dbn_multi->num_subscribed, 1);`
MultiThreadCount(i) ==
  /\ tpc[i] = "count"
  /\ num_subscribed' = num_subscribed + 1
  /\ incs' = [incs EXCEPT ![i] = @ + 1]
  /\ tpc' = [tpc EXCEPT ![i] = "loop"]
  /\ UNCHANGED <<num_sessions, clients, threads, multi_stop, tstart, tcalls,
                 spc, close_i, fully, alloc, closeCalls, ops>>
  /\ UNCHANGED <<svars, dvars, pvars>>

\* The loop goes on whatever the flag says.
KeepRunning_IgnoreStop(stp) == TRUE

\* thread: `while (!dbn_multi->stop)`
KeepRunning(stp) == ~stp

MultiThreadLoop(i) ==
  /\ tpc[i] = "loop"
  /\ tpc' = [tpc EXCEPT ![i] = IF KeepRunning(multi_stop) THEN "call" ELSE "exited"]
  /\ UNCHANGED <<num_sessions, clients, threads, multi_stop, num_subscribed,
                 tstart, incs, tcalls, spc, close_i, fully, alloc, closeCalls, ops>>
  /\ UNCHANGED <<svars, dvars, pvars>>

\* thread: the worker enters dbn_get.
MultiThreadCall(i) ==
  /\ tpc[i] = "call"
  /\ tcalls[i] < MaxCalls
  /\ tpc' = [tpc EXCEPT ![i] = "get"]
  /\ tcalls' = [tcalls EXCEPT ![i] = IF multi_stop THEN @ + 1 ELSE @]
  /\ UNCHANGED <<num_sessions, clients, threads, multi_stop, num_subscribed,
                 tstart, incs, spc, close_i, fully, alloc, closeCalls, ops>>
  /\ UNCHANGED <<svars, dvars, pvars>>

\* thread: dbn_get returns; its value is ignored.
MultiThreadGetReturn(i) ==
  /\ tpc[i] = "get"
  /\ tpc' = [tpc EXCEPT ![i] = "loop"]
  /\ UNCHANGED <<num_sessions, clients, threads, multi_stop, num_subscribed,
                 tstart, incs, tcalls, spc, close_i, fully, alloc, closeCalls, ops>>
  /\ UNCHANGED <<svars, dvars, pvars>>

\* Any session counted makes the supervisor fully subscribed.
FullySubscribed_AnyOne(ns, nsub) == nsub >= 1

\* `atomic_load(&dbn_multi->num_subscribed) == dbn_multi->num_sessions`
FullySubscribed(ns, nsub) == nsub = ns

MultiIsFullySubscribed ==
  /\ spc = "idle"
  /\ fully' = FullySubscribed(num_sessions, num_subscribed)
  /\ UNCHANGED <<num_sessions, clients, threads, multi_stop, num_subscribed,
                 tpc, tstart, incs, tcalls, spc, close_i, alloc, closeCalls, ops>>
  /\ UNCHANGED <<svars, dvars, pvars>>

\* dbn_multi_close_all: `dbn_multi->stop = true;`
MultiCloseAllBegin ==
  /\ spc \in {"idle", "closed"}
  /\ closeCalls < MaxCloseCalls
  /\ multi_stop' = TRUE
  /\ spc' = "join"
  /\ close_i' = 0
  /\ ops' = NoOps
  /\ UNCHANGED <<num_sessions, clients, threads, num_subscribed, tpc, tstart,
                 incs, tcalls, fully, alloc, closeCalls>>
  /\ UNCHANGED <<svars, dvars, pvars>>

\* Slot j (from 0) of the threads array holds a thread pthread_create made.
SlotSpawned(thr, j) == j + 1 <= Len(thr) /\ thr[j + 1] # Garbage

\* pthread_join returns at once.
Joinable_NoWait(pcs, t) == TRUE

\* pthread_join returns when the thread has returned.
Joinable(pcs, t) == pcs[t] = "exited"

\* One pthread_join of the first loop.  The loop is left when close_i
\* reaches num_sessions.
MultiJoin ==
  /\ spc = "join"
  /\ IF close_i < num_sessions
       THEN /\ SlotSpawned(threads, close_i)
            /\ Joinable(tpc, threads[close_i + 1])
            /\ close_i' = close_i + 1
            /\ ops' = [ops EXCEPT !.joins = @ + 1]
            /\ UNCHANGED spc
       ELSE /\ spc' = "close"
            /\ close_i' = 0
            /\ UNCHANGED ops
  /\ UNCHANGED <<num_sessions, clients, threads, multi_stop, num_subscribed,
                 tpc, tstart, incs, tcalls, fully, alloc, closeCalls>>
  /\ UNCHANGED <<svars, dvars, pvars>>

\* pthread_join on a slot that was never filled, or that lies beyond the
\* array: the call fails at once or faults.
MultiJoinUnspawned(faults) ==
  /\ spc = "join"
  /\ close_i < num_sessions
  /\ ~SlotSpawned(threads, close_i)
  /\ IF faults THEN spc' = "crashed" /\ UNCHANGED close_i
               ELSE close_i' = close_i + 1 /\ UNCHANGED spc
  /\ ops' = [ops EXCEPT !.joins = @ + 1]
  /\ UNCHANGED <<num_sessions, clients, threads, multi_stop, num_subscribed,
                 tpc, tstart, incs, tcalls, fully, alloc, closeCalls>>
  /\ UNCHANGED <<svars, dvars, pvars>>

\* The structure is left as it was.
AfterMemset_Kept(field) == field

\* `memset(dbn_multi, 0, sizeof(dbn_multi_t));`
AfterMemset(field) == 0

\* One dbn_close of the second loop; after the last one the arrays are
\* freed and the structure is zeroed.
MultiCloseSession ==
  /\ spc = "close"
  /\ IF close_i < num_sessions
       THEN /\ clients' = [clients EXCEPT ![close_i + 1].closed = TRUE]
            /\ close_i' = close_i + 1
            /\ ops' = [ops EXCEPT !.closes = @ + 1]
            /\ UNCHANGED <<spc, num_sessions, threads, multi_stop, num_subscribed,
                           alloc, closeCalls>>
       ELSE /\ spc' = "closed"
            /\ ops' = [ops EXCEPT !.frees = @ + Cardinality(alloc)]
            /\ num_sessions' = AfterMemset(num_sessions)
            /\ threads' = <<>>
            /\ alloc' = {}
            /\ multi_stop' = FALSE
            /\ num_subscribed' = 0
            /\ closeCalls' = closeCalls + 1
            /\ UNCHANGED <<clients, close_i>>
  /\ UNCHANGED <<tpc, tstart, incs, tcalls, fully>>
  /\ UNCHANGED <<svars, dvars, pvars>>

MNext ==
  \/ \E o \in ConnectOutcomes : MultiConnectAndStart(o)
  \/ \E i \in Sessions, o \in StartOutcomes : MultiThreadStart(i, o)
  \/ \E i \in Sessions : MultiThreadCount(i)
  \/ \E i \in Sessions : MultiThreadLoop(i)
  \/ \E i \in Sessions : MultiThreadCall(i)
  \/ \E i \in Sessions : MultiThreadGetReturn(i)
  \/ MultiIsFullySubscribed
  \/ MultiCloseAllBegin
  \/ MultiJoin
  \/ \E f \in BOOLEAN : MultiJoinUnspawned(f)
  \/ MultiCloseSession

(***************************************************************************)
(* Control messages of the gateway (dbn.c).  A message is a sequence of    *)
(* characters, each a string of length 1, without the terminating newline. *)
(***************************************************************************)
\* Fields of a control message the model builds.
MaxFields == 2

\* Index from 0 of the first occurrence of key in msg, or -1.
strstr(msg, key) ==
  LET at == { i \in 0..(Len(msg) - Len(key)) :
                SubSeq(msg, i + 1, i + Len(key)) = key }
  IN IF at = {} THEN -1 ELSE CHOOSE i \in at : \A j \in at : i <= j

\* Index from 0 of the first c in msg at or after index from, or -1.
strchr(msg, from, c) ==
  LET at == { i \in from..(Len(msg) - 1) : msg[i + 1] = c }
  IN IF at = {} THEN -1 ELSE CHOOSE i \in at : \A j \in at : i <= j

\* The NULL a lookup returns, and a returned copy of a value.
NoValue == [ok |-> FALSE, value |-> <<>>]

Value(text) == [ok |-> TRUE, value |-> text]

\* get_control_message_field(msg, key)
get_control_message_field(msg, key) ==
  LET len == Len(msg)
      found == strstr(msg, key)
      start == found + Len(key)
  IN IF found = -1 THEN NoValue
     ELSE IF start < len - 1
       THEN LET bar == strchr(msg, start + 1, "|")
                end == IF bar = -1 THEN len ELSE bar
            IN Value(SubSeq(msg, start + 2, end))
     ELSE NoValue

\* Keys and values of the fields the model builds.
FieldKeys == { <<"a">>, <<"b">>, <<"b", "a">> }

FieldValues == { <<>>, <<"1">>, <<"a">> }

Field(k, v) == k \o <<"=">> \o v

FieldTexts == { Field(k, v) : k \in FieldKeys, v \in FieldValues }

\* The messages of n fields separated by '|'.
RECURSIVE MessagesOf(_)
MessagesOf(k) ==
  IF k = 1 THEN FieldTexts
  ELSE { f \o <<"|">> \o rest : f \in FieldTexts, rest \in MessagesOf(k - 1) }

ControlMessages == UNION { MessagesOf(k) : k \in 1..MaxFields }

\* No lookup is under way.
FIdle == fmsg = <<>> /\ fkey = <<>> /\ fval = NoValue /\ fpc = "off"

FInit ==
  /\ fmsg \in ControlMessages
  /\ fkey \in FieldKeys
  /\ fval = NoValue
  /\ fpc = "call"

GetField ==
  /\ fpc = "call"
  /\ fval' = get_control_message_field(fmsg, fkey)
  /\ fpc' = "done"
  /\ UNCHANGED <<fmsg, fkey>>
  /\ UNCHANGED <<svars, dvars, mvars, hvars, tvars, ovars, qvars, gvars>>

FNext == GetField

(***************************************************************************)
(* The handshake of dbn_connect, from the connected socket on.             *)
(***************************************************************************)
LSG_VERSION == <<"l", "s", "g", "_", "v", "e", "r", "s", "i", "o", "n">>
CRAM == <<"c", "r", "a", "m">>
SUCCESS == <<"s", "u", "c", "c", "e", "s", "s">>

\* The key dbn_connect looks up in its first, second and third message.
HandshakeKeys == <<LSG_VERSION, CRAM, SUCCESS>>

\* Lines the gateway may send: the three lines of a handshake that
\* succeeds, a denial, a line with a field of another name, and a line whose
\* key ends in "success".
HandshakeLines ==
  { Field(LSG_VERSION, <<"1">>),
    Field(CRAM, <<"x">>),
    Field(SUCCESS, <<"1">>),
    Field(SUCCESS, <<"0">>),
    Field(<<"e">>, <<"1">>),
    Field(<<"x">> \o SUCCESS, <<"1">>) }

HIdle ==
  /\ hph = "off" /\ hrest = <<>> /\ hbuf = <<>> /\ hmsgs = <<>>
  /\ hval = <<>> /\ hsends = <<>> /\ hret = 0 /\ hfatal = 0

\* connect() has returned 0.
HInit ==
  /\ hph = "recv" /\ hrest = <<>> /\ hbuf = <<>> /\ hmsgs = <<>>
  /\ hval = <<>> /\ hsends = <<>> /\ hret = 0 /\ hfatal = 0

\* A failing step: invoke_error_handler(dbn, true, ...); return -1.
HandshakeFatal ==
  /\ hfatal' = hfatal + 1
  /\ hret' = -1
  /\ hph' = "returned"

\* The gateway sends its next line.
GatewayLine(l) ==
  /\ hph = "recv" /\ hrest = <<>> /\ hbuf = <<>>
  /\ hrest' = l \o <<"\n">>
  /\ UNCHANGED <<hph, hbuf, hmsgs, hval, hsends, hret, hfatal>>
  /\ UNCHANGED <<svars, dvars, mvars, fvars, tvars, ovars, qvars, gvars>>

\* receive_control_message: recv of one character; the newline ends the
\* message and is replaced by the terminator.
HandshakeRecv ==
  /\ hph = "recv" /\ hrest # <<>>
  /\ hrest' = Tail(hrest)
  /\ IF Head(hrest) = "\n"
       THEN /\ hmsgs' = Append(hmsgs, hbuf)
            /\ hbuf' = <<>>
            /\ hph' = "field"
       ELSE /\ hbuf' = Append(hbuf, Head(hrest))
            /\ UNCHANGED <<hmsgs, hph>>
  /\ UNCHANGED <<hval, hsends, hret, hfatal>>
  /\ UNCHANGED <<svars, dvars, mvars, fvars, tvars, ovars, qvars, gvars>>

\* recv returns 0 (the peer closed) or -1: receive_control_message returns
\* NULL and dbn_connect fails.
HandshakeRecvFails ==
  /\ hph = "recv"
  /\ HandshakeFatal
  /\ hbuf' = <<>>
  /\ UNCHANGED <<hrest, hmsgs, hval, hsends>>
  /\ UNCHANGED <<svars, dvars, mvars, fvars, tvars, ovars, qvars, gvars>>

\* Where dbn_connect goes on after the field of message number k (from 1).
AfterField(k) == IF k = 1 THEN "recv" ELSE IF k = 2 THEN "sodium" ELSE "check"

\* The field of the message just received is looked up.
HandshakeField ==
  /\ hph = "field"
  /\ LET k == Len(hmsgs)
         v == get_control_message_field(hmsgs[k], HandshakeKeys[k])
     IN IF v.ok
          THEN /\ hval' = v.value
               /\ hph' = AfterField(k)
               /\ UNCHANGED <<hret, hfatal>>
          ELSE /\ HandshakeFatal
               /\ UNCHANGED hval
  /\ UNCHANGED <<hrest, hbuf, hmsgs, hsends>>
  /\ UNCHANGED <<svars, dvars, mvars, fvars, tvars, ovars, qvars, gvars>>

\* `if (sodium_init() < 0)`
HandshakeSodium(ok) ==
  /\ hph = "sodium"
  /\ IF ok THEN hph' = "send" /\ UNCHANGED <<hret, hfatal>>
           ELSE HandshakeFatal
  /\ UNCHANGED <<hrest, hbuf, hmsgs, hval, hsends>>
  /\ UNCHANGED <<svars, dvars, mvars, fvars, tvars, ovars, qvars, gvars>>

\* The authentication line is sent; the result of send is not looked at.
HandshakeSend ==
  /\ hph = "send"
  /\ hsends' = Append(hsends, Len(hmsgs))
  /\ hph' = "recv"
  /\ UNCHANGED <<hrest, hbuf, hmsgs, hval, hret, hfatal>>
  /\ UNCHANGED <<svars, dvars, mvars, fvars, tvars, ovars, qvars, gvars>>

\* `if (strcmp(success, "1"))`
Denied(success) == success # <<"1">>

HandshakeCheck ==
  /\ hph = "check"
  /\ IF Denied(hval)
       THEN HandshakeFatal
       ELSE hret' = 0 /\ hph' = "returned" /\ UNCHANGED hfatal
  /\ UNCHANGED <<hrest, hbuf, hmsgs, hval, hsends>>
  /\ UNCHANGED <<svars, dvars, mvars, fvars, tvars, ovars, qvars, gvars>>

HNext ==
  \/ \E l \in HandshakeLines : GatewayLine(l)
  \/ HandshakeRecv
  \/ HandshakeRecvFails
  \/ HandshakeField
  \/ \E ok \in BOOLEAN : HandshakeSodium(ok)
  \/ HandshakeSend
  \/ HandshakeCheck

(***************************************************************************)
(* dbn_start step by step: the subscription lines, start_session, the      *)
(* stream preamble, the two receive requests.  A symbol is named by its    *)
(* index in the caller's array.                                            *)
(***************************************************************************)
\* Symbols of one subscription line.
ChunkSize == 1000

\* Length of the longest symbol list.
MaxSymbols == 2001

\* The list lengths the model runs: the short ones and those next to a
\* multiple of the chunk size.
SymbolCounts ==
  { c \in 0..MaxSymbols :
      c <= 3 \/ c % ChunkSize \in {0, 1, ChunkSize - 1} }

\* `num_roots_i = num_roots - i; if (num_roots_i > 1000) num_roots_i = 1000;`
NumRootsI(i, num) == IF num - i > ChunkSize THEN ChunkSize ELSE num - i

\* Only a line that ends before the end of the list is the last.
IsLast_Strict(i, num) == i + ChunkSize > num

\* `bool is_last = i + 1000 >= num_roots;`
IsLast(i, num) == i + ChunkSize >= num

\* The symbols appended to a line: roots[i + j] and the suffix, followed by
\* ',' or, for the last of the chunk, by the newline.
Chunk(i, num_i, suffix) ==
  [j \in 1..num_i |-> [root |-> i + j - 1, suffix |-> suffix,
                       sep |-> IF j = num_i THEN "\n" ELSE ","]]

SubscribeLine(i, num, replay, suffix) ==
  [kind |-> "subscribe", start0 |-> replay,
   is_last |-> IF IsLast(i, num) THEN "1" ELSE "0",
   symbols |-> Chunk(i, NumRootsI(i, num), suffix)]

\* `schema=%s|stype_in=%s[|start=0]|symbols=ALL_SYMBOLS\n`
AllSymbolsLine(replay) ==
  [kind |-> "subscribe", start0 |-> replay, is_last |-> "none",
   symbols |-> <<[root |-> "ALL_SYMBOLS", suffix |-> "", sep |-> "\n"]>>]

StartSessionLine ==
  [kind |-> "start_session", start0 |-> FALSE, is_last |-> "none",
   symbols |-> <<>>]

\* The first 8 bytes of the stream: signature, version, header length
\* (32 bits, least significant byte first).
Preambles ==
  { sig \o <<ver, len, 0, 0, 0>> :
      sig \in {<<"D", "B", "N">>, <<"D", "B", "X">>},
      ver \in {1, 2}, len \in {0, 2} }

PreheaderLen == 8

\* `strncmp((char *)preheader, "DBN", 3)`
BadSignature(pre) == SubSeq(pre, 1, 3) # <<"D", "B", "N">>

\* The version byte is not looked at.
BadVersion_Any(pre) == FALSE

\* `preheader[3] != 1`
BadVersion(pre) == pre[4] # 1

\* `(int)*(uint32_t *)(preheader + 4)`
\* the top byte carries the sign.
HeaderLength(pre) ==
  pre[5] + 256 * pre[6] + 65536 * pre[7]
    + 16777216 * (IF pre[8] >= 128 THEN pre[8] - 256 ELSE pre[8])

\* A log with one entry for a run of recv calls.
Logged(log, ev) ==
  IF ev = "recv" /\ log # <<>> /\ log[Len(log)] = "recv" THEN log
  ELSE Append(log, ev)

TIdle ==
  /\ tnum = 0 /\ treplay = FALSE /\ tsuffix = "" /\ tph = "off" /\ ti = 0
  /\ tlines = <<>> /\ tlog = <<>> /\ tgw = <<>> /\ thead = 0 /\ thdr = 0
  /\ tposted = {} /\ tret = 0 /\ tfatal = 0

\* dbn_start is entered on a connected session.
TInit ==
  /\ tnum \in SymbolCounts
  /\ treplay \in BOOLEAN
  /\ tsuffix \in {"", ".OPT"}
  /\ tph = "subscribe" /\ ti = 0
  /\ tlines = <<>> /\ tlog = <<>> /\ tgw = <<>> /\ thead = 0 /\ thdr = 0
  /\ tposted = {} /\ tret = 0 /\ tfatal = 0

\* A failing step: invoke_error_handler(dbn, true, ...); return -1.
StartFails ==
  /\ tfatal' = tfatal + 1
  /\ tret' = -1
  /\ tph' = "returned"

\* `if (num_roots == 0)`: the single ALL_SYMBOLS line.
StartSubscribeAll ==
  /\ tph = "subscribe" /\ tnum = 0
  /\ tlines' = Append(tlines, AllSymbolsLine(treplay))
  /\ tlog' = Logged(tlog, "subscribe")
  /\ tph' = "start_session"
  /\ UNCHANGED <<tnum, treplay, tsuffix, ti, tgw, thead, thdr, tposted, tret, tfatal>>
  /\ UNCHANGED <<svars, dvars, mvars, fvars, hvars, ovars, qvars, gvars>>

\* `else for (int i = 0; i < num_roots; i += 1000)`: one pass of the loop
\* builds and sends a line; the result of send is not looked at.
StartSubscribeChunk ==
  /\ tph = "subscribe" /\ tnum # 0
  /\ IF ti < tnum
       THEN /\ tlines' = Append(tlines, SubscribeLine(ti, tnum, treplay, tsuffix))
            /\ tlog' = Logged(tlog, "subscribe")
            /\ ti' = ti + ChunkSize
            /\ UNCHANGED tph
       ELSE /\ tph' = "start_session"
            /\ UNCHANGED <<tlines, tlog, ti>>
  /\ UNCHANGED <<tnum, treplay, tsuffix, tgw, thead, thdr, tposted, tret, tfatal>>
  /\ UNCHANGED <<svars, dvars, mvars, fvars, hvars, ovars, qvars, gvars>>

\* `send(dbn->sock, "start_session=0\n", ...)`
StartSession ==
  /\ tph = "start_session"
  /\ tlines' = Append(tlines, StartSessionLine)
  /\ tlog' = Logged(tlog, "start_session")
  /\ tph' = "preheader"
  /\ UNCHANGED <<tnum, treplay, tsuffix, ti, tgw, thead, thdr, tposted, tret, tfatal>>
  /\ UNCHANGED <<svars, dvars, mvars, fvars, hvars, ovars, qvars, gvars>>

\* The gateway sends the stream preamble.
GatewayPreamble(p) ==
  /\ tph = "preheader" /\ tgw = <<>>
  /\ tgw' = p
  /\ UNCHANGED <<tnum, treplay, tsuffix, tph, ti, tlines, tlog, thead, thdr,
                 tposted, tret, tfatal>>
  /\ UNCHANGED <<svars, dvars, mvars, fvars, hvars, ovars, qvars, gvars>>

\* One recv of the preheader loop returns m > 0 bytes.
StartRecvPreheader(m) ==
  /\ tph = "preheader" /\ tgw # <<>>
  /\ thead < PreheaderLen /\ m >= 1 /\ m <= PreheaderLen - thead
  /\ thead' = thead + m
  /\ tlog' = Logged(tlog, "recv")
  /\ tph' = IF thead' < PreheaderLen THEN "preheader" ELSE "check"
  /\ UNCHANGED <<tnum, treplay, tsuffix, ti, tlines, tgw, thdr, tposted, tret, tfatal>>
  /\ UNCHANGED <<svars, dvars, mvars, fvars, hvars, ovars, qvars, gvars>>

\* A recv of the preheader loop or of the header loop returns 0 or -1.
StartRecvFails ==
  /\ \/ tph = "preheader"
     \/ tph = "header" /\ thdr < HeaderLength(tgw)
  /\ tlog' = Logged(tlog, "recv")
  /\ StartFails
  /\ UNCHANGED <<tnum, treplay, tsuffix, ti, tlines, tgw, thead, thdr, tposted>>
  /\ UNCHANGED <<svars, dvars, mvars, fvars, hvars, ovars, qvars, gvars>>

\* The signature and the version of the preheader are checked.
StartCheck ==
  /\ tph = "check"
  /\ IF BadSignature(tgw) \/ BadVersion(tgw)
       THEN StartFails
       ELSE tph' = "header" /\ UNCHANGED <<tret, tfatal>>
  /\ UNCHANGED <<tnum, treplay, tsuffix, ti, tlines, tlog, tgw, thead, thdr, tposted>>
  /\ UNCHANGED <<svars, dvars, mvars, fvars, hvars, ovars, qvars, gvars>>

\* One recv of the header loop returns m > 0 bytes.
StartRecvHeader(m) ==
  /\ tph = "header"
  /\ thdr < HeaderLength(tgw) /\ m >= 1 /\ m <= HeaderLength(tgw) - thdr
  /\ thdr' = thdr + m
  /\ tlog' = Logged(tlog, "recv")
  /\ UNCHANGED <<tnum, treplay, tsuffix, tph, ti, tlines, tgw, thead, tposted, tret, tfatal>>
  /\ UNCHANGED <<svars, dvars, mvars, fvars, hvars, ovars, qvars, gvars>>

\* The header is complete: both receive requests are submitted; return 0.
StartSubmit ==
  /\ tph = "header"
  /\ ~(thdr < HeaderLength(tgw))
  /\ tposted' = Buffers
  /\ tlog' = Logged(tlog, "submit")
  /\ tret' = 0
  /\ tph' = "returned"
  /\ UNCHANGED <<tnum, treplay, tsuffix, ti, tlines, tgw, thead, thdr, tfatal>>
  /\ UNCHANGED <<svars, dvars, mvars, fvars, hvars, ovars, qvars, gvars>>

TNext ==
  \/ StartSubscribeAll
  \/ StartSubscribeChunk
  \/ StartSession
  \/ \E p \in Preambles : GatewayPreamble(p)
  \/ \E m \in 1..PreheaderLen : StartRecvPreheader(m)
  \/ StartRecvFails
  \/ StartCheck
  \/ \E m \in 1..2 : StartRecvHeader(m)
  \/ StartSubmit

(***************************************************************************)
(* osi_parse applied to strings of every shape.                            *)
(***************************************************************************)
TSLA == <<84, 83, 76, 65>>

\* Six bytes in the place of the root: "TSLA  ", "SPY   ", "ABCDEF",
\* "A B   ", "  AB  " and six spaces.
OsiRoots ==
  { Pad6(TSLA), Pad6(SPY), <<65, 66, 67, 68, 69, 70>>,
    <<65, 32, 66, 32, 32, 32>>, <<32, 32, 65, 66, 32, 32>>, Pad6(<<>>) }

\* Two bytes in the place of the year ("25", "00", "99", "-1"), of the
\* month ("08", "12", " 5", "5x") and of the day ("15", "01", "31").
OsiYears == { <<50, 53>>, <<48, 48>>, <<57, 57>>, <<45, 49>> }
OsiMonths == { <<48, 56>>, <<49, 50>>, <<32, 53>>, <<53, 120>> }
OsiDays == { <<49, 53>>, <<48, 49>>, <<51, 49>> }

\* 'C', 'P', 'X'.
OsiKinds == { <<67>>, <<80>>, <<88>> }

\* "00100000", "99999999", "00000000", "00012345", "-0000001", "0010 000".
OsiStrikes ==
  { <<48, 48, 49, 48, 48, 48, 48, 48>>, <<57, 57, 57, 57, 57, 57, 57, 57>>,
    <<48, 48, 48, 48, 48, 48, 48, 48>>, <<48, 48, 48, 49, 50, 51, 52, 53>>,
    <<45, 48, 48, 48, 48, 48, 48, 49>>, <<48, 48, 49, 48, 32, 48, 48, 48>> }

\* The strings osi_parse is called with: 21 bytes of every combination, and
\* strings of 0, 3, 19 ("TSLA250815C00100000") and 22 bytes.
OsiSymbols ==
  { r \o y \o m \o d \o k \o st :
      r \in OsiRoots, y \in OsiYears, m \in OsiMonths, d \in OsiDays,
      k \in OsiKinds, st \in OsiStrikes }
  \cup { <<>>, SPY, TSLA \o CallTail, Pad6(TSLA) \o CallTail \o <<48>> }

OIdle == osym = <<>> /\ opc = "off" /\ ores = NoOsi

OInit == osym \in OsiSymbols /\ opc = "call" /\ ores = NoOsi

\* The call osi_parse(symbol, &osi); *osi keeps its content when the call
\* returns false.
OsiParse ==
  /\ opc = "call"
  /\ ores' = IF osi_parse(osym).ok THEN osi_parse(osym) ELSE ores
  /\ opc' = "done"
  /\ UNCHANGED osym
  /\ UNCHANGED <<svars, dvars, mvars, fvars, hvars, tvars, qvars, gvars>>

ONext == OsiParse

(***************************************************************************)
(* The roots search of on_msg, one pass of its loop at a time, on tables   *)
(* of every content.                                                       *)
(***************************************************************************)
\* Entries of the largest table.
MaxRoots == 8

\* The tables of up to MaxRoots entries, in any order and with repetitions.
RECURSIVE TablesOf(_)
TablesOf(k) ==
  IF k = 0 THEN {<<>>}
  ELSE { <<[root |-> r]>> \o t : r \in {AAPL, MSFT, SPY}, t \in TablesOf(k - 1) }

SearchTables == UNION { TablesOf(k) : k \in 0..MaxRoots }

\* One pass of `while(true)`: the branch taken and the variables after it.
SearchIter(rts, key, index, step, last_index) ==
  LET d == strcmp(key, rts[index + 1].root)
      num == Len(rts)
      h == HalfStep(step)
      Leave(why, point, needed) ==
        [end |-> why, insertion_point |-> point, insertion_needed |-> needed,
         index |-> index, step |-> step, last_index |-> last_index]
      Move(to) ==
        [end |-> "no", insertion_point |-> 0, insertion_needed |-> TRUE,
         index |-> to, step |-> h, last_index |-> index]
  IN IF d = 0 THEN Leave("hit", index, FALSE)
     ELSE IF d < 0
       THEN IF index = 0 THEN Leave("first", 0, TRUE)
            ELSE IF last_index = index - 1 THEN Leave("reversal", index, TRUE)
            ELSE Move(IF h > index THEN 0 ELSE index - h)
     ELSE IF index = num - 1 THEN Leave("last", num, TRUE)
          ELSE IF last_index = index + 1 THEN Leave("reversal", index + 1, TRUE)
          ELSE Move(IF index + h >= num THEN num - 1 ELSE index + h)

QIdle ==
  /\ qtab = <<>> /\ qkey = <<>> /\ qpc = "off" /\ qindex = 0 /\ qstep = 0
  /\ qlast = 0 /\ qpoint = 0 /\ qneeded = TRUE /\ qend = "no"

\* `size_t insertion_point = 0; bool insertion_needed = true;`
QInit ==
  /\ qtab \in SearchTables
  /\ qkey \in {AAPL, MSFT, SPY}
  /\ qpc = "start" /\ qindex = 0 /\ qstep = 0 /\ qlast = 0
  /\ qpoint = 0 /\ qneeded = TRUE /\ qend = "no"

\* `if (discover->num_roots)`: last_index = 0, index = step = num_roots / 2.
SearchStart ==
  /\ qpc = "start"
  /\ IF Len(qtab) # 0
       THEN /\ qindex' = Len(qtab) \div 2
            /\ qstep' = Len(qtab) \div 2
            /\ qpc' = "loop"
            /\ UNCHANGED qend
       ELSE /\ qpc' = "done"
            /\ qend' = "empty"
            /\ UNCHANGED <<qindex, qstep>>
  /\ UNCHANGED <<qtab, qkey, qlast, qpoint, qneeded>>
  /\ UNCHANGED <<svars, dvars, mvars, fvars, hvars, tvars, ovars, gvars>>

\* One pass of the loop.
SearchStep ==
  /\ qpc = "loop"
  /\ LET r == SearchIter(qtab, qkey, qindex, qstep, qlast)
     IN /\ qindex' = r.index
        /\ qstep' = r.step
        /\ qlast' = r.last_index
        /\ qend' = r.end
        /\ IF r.end = "no"
             THEN UNCHANGED <<qpc, qpoint, qneeded>>
             ELSE /\ qpc' = "done"
                  /\ qpoint' = r.insertion_point
                  /\ qneeded' = r.insertion_needed
  /\ UNCHANGED <<qtab, qkey>>
  /\ UNCHANGED <<svars, dvars, mvars, fvars, hvars, tvars, ovars, gvars>>

QNext == SearchStart \/ SearchStep

(***************************************************************************)
(* The worker loops around dbn_get, with the ring of each session reduced  *)
(* to its requests and completions: a completion carries 1 for some bytes, *)
(* 0 for the end of the stream, -1 for an error.  The gateway may send     *)
(* without end.                                                            *)
(***************************************************************************)
\* The sessions that have a worker: every session of the supervisor, the
\* one session of discovery.
Workers == IF gkind = "discover" THEN {1} ELSE Sessions

GIdle ==
  /\ gkind = "multi"
  /\ glink = [i \in Sessions |-> "up"]
  /\ gposted = [i \in Sessions |-> {}]
  /\ gcq = [i \in Sessions |-> <<>>]
  /\ gpc = [i \in Sessions |-> "none"]
  /\ gcur = [i \in Sessions |-> -1]
  /\ gstop = FALSE
  /\ gstate = "NOT_STARTED"
  /\ gowner = "run"
  /\ gfailed = [i \in Sessions |-> FALSE]
  /\ gafter = [i \in Sessions |-> 0]

\* Every worker has returned from a successful dbn_start, which posted both
\* buffers, and stands at the test of its loop.
GInit ==
  /\ gkind \in {"multi", "discover"}
  /\ glink = [i \in Sessions |-> "up"]
  /\ gposted = [i \in Sessions |-> IF i \in Workers THEN StartPosted("ok") ELSE {}]
  /\ gcq = [i \in Sessions |-> <<>>]
  /\ gpc = [i \in Sessions |-> IF i \in Workers THEN "loop" ELSE "none"]
  /\ gcur = [i \in Sessions |-> -1]
  /\ gstop = FALSE
  /\ gstate = IF gkind = "discover" THEN "SUBSCRIBED" ELSE "NOT_STARTED"
  /\ gowner = "run"
  /\ gfailed = [i \in Sessions |-> FALSE]
  /\ gafter = [i \in Sessions |-> 0]

\* The kernel completes a posted receive with bytes of a live connection.
RingDeliver(i, b) ==
  /\ glink[i] = "up" /\ b \in gposted[i]
  /\ gcq' = [gcq EXCEPT ![i] = Append(@, [buf |-> b, res |-> 1])]
  /\ gposted' = [gposted EXCEPT ![i] = @ \ {b}]
  /\ UNCHANGED <<gkind, glink, gpc, gcur, gstop, gstate, gowner, gfailed, gafter>>
  /\ UNCHANGED <<svars, dvars, mvars, fvars, hvars, tvars, ovars, qvars>>

\* The connection of a session is lost: the peer closes it or it is reset.
RingLose(i, how) ==
  /\ glink[i] = "up" /\ i \in Workers
  /\ glink' = [glink EXCEPT ![i] = how]
  /\ UNCHANGED <<gkind, gposted, gcq, gpc, gcur, gstop, gstate, gowner, gfailed, gafter>>
  /\ UNCHANGED <<svars, dvars, mvars, fvars, hvars, tvars, ovars, qvars>>

\* The kernel completes a posted receive of a lost connection with 0 or
\* with an error.
RingFail(i, b) ==
  /\ glink[i] # "up" /\ b \in gposted[i]
  /\ gcq' = [gcq EXCEPT ![i] = Append(@, [buf |-> b,
                                           res |-> IF glink[i] = "eof" THEN 0 ELSE -1])]
  /\ gposted' = [gposted EXCEPT ![i] = @ \ {b}]
  /\ UNCHANGED <<gkind, glink, gpc, gcur, gstop, gstate, gowner, gfailed, gafter>>
  /\ UNCHANGED <<svars, dvars, mvars, fvars, hvars, tvars, ovars, qvars>>

\* The test of the loop: `while (!dbn_multi->stop)` or
\* `while (!discover->stop && discover->state == SUBSCRIBED)`.
LoopGoesOn ==
  IF gkind = "multi" THEN KeepRunning(gstop) ELSE KeepGetting(gstate, gstop)

\* The worker tests its loop condition and enters dbn_get or leaves.
LoopTest(i) ==
  /\ gpc[i] = "loop"
  /\ IF LoopGoesOn
       THEN /\ gpc' = [gpc EXCEPT ![i] = "wait"]
            /\ gafter' = [gafter EXCEPT ![i] =
                            IF gfailed[i] /\ @ < MaxCalls THEN @ + 1 ELSE @]
       ELSE /\ gpc' = [gpc EXCEPT ![i] = "exited"]
            /\ UNCHANGED gafter
  /\ UNCHANGED <<gkind, glink, gposted, gcq, gcur, gstop, gstate, gowner, gfailed>>
  /\ UNCHANGED <<svars, dvars, mvars, fvars, hvars, tvars, ovars, qvars>>

\* on_error of the engine: discovery stores ERROR, the supervisor passes
\* the message on.
LoopOnError == IF gkind = "discover" THEN "ERROR" ELSE gstate

\* dbn_get: io_uring_wait_cqe returns a completion.  A result of 0 or below
\* is fatal and the call returns -1 without posting the buffer again.
LoopGetTake(i) ==
  /\ gpc[i] = "wait" /\ gcq[i] # <<>>
  /\ gcq' = [gcq EXCEPT ![i] = Tail(@)]
  /\ IF RecvFailed(Head(gcq[i]).res)
       THEN /\ gfailed' = [gfailed EXCEPT ![i] = TRUE]
            /\ gstate' = LoopOnError
            /\ gpc' = [gpc EXCEPT ![i] = "loop"]
            /\ UNCHANGED gcur
       ELSE /\ gcur' = [gcur EXCEPT ![i] = Head(gcq[i]).buf]
            /\ gpc' = [gpc EXCEPT ![i] = "drain"]
            /\ UNCHANGED <<gfailed, gstate>>
  /\ UNCHANGED <<gkind, glink, gposted, gstop, gowner, gafter>>
  /\ UNCHANGED <<svars, dvars, mvars, fvars, hvars, tvars, ovars, qvars>>

\* dbn_get: io_uring_wait_cqe is interrupted by a signal: return 0.
LoopGetInterrupted(i) ==
  /\ gpc[i] = "wait" /\ gcq[i] = <<>>
  /\ WaitRet("EINTR") = 0
  /\ gpc' = [gpc EXCEPT ![i] = "loop"]
  /\ UNCHANGED <<gkind, glink, gposted, gcq, gcur, gstop, gstate, gowner, gfailed, gafter>>
  /\ UNCHANGED <<svars, dvars, mvars, fvars, hvars, tvars, ovars, qvars>>

\* dbn_get: the records are dispatched, the buffer is posted again and the
\* count is returned.  The handler of discovery may store XREF or ERROR.
LoopGetFinish(i, st) ==
  /\ gpc[i] = "drain"
  /\ st = gstate \/ (gkind = "discover" /\ st \in {"XREF", "ERROR"})
  /\ gposted' = [gposted EXCEPT ![i] = Resubmit(@, gcur[i])]
  /\ gcur' = [gcur EXCEPT ![i] = -1]
  /\ gstate' = st
  /\ gpc' = [gpc EXCEPT ![i] = "loop"]
  /\ UNCHANGED <<gkind, glink, gcq, gstop, gowner, gfailed, gafter>>
  /\ UNCHANGED <<svars, dvars, mvars, fvars, hvars, tvars, ovars, qvars>>

\* dbn_get: the carry-over does not fit or a header has a bad length: fatal,
\* return -1 without posting the buffer again.
LoopGetFatal(i) ==
  /\ gpc[i] = "drain"
  /\ gfailed' = [gfailed EXCEPT ![i] = TRUE]
  /\ gstate' = LoopOnError
  /\ gcur' = [gcur EXCEPT ![i] = -1]
  /\ gpc' = [gpc EXCEPT ![i] = "loop"]
  /\ UNCHANGED <<gkind, glink, gposted, gcq, gstop, gowner, gafter>>
  /\ UNCHANGED <<svars, dvars, mvars, fvars, hvars, tvars, ovars, qvars>>

\* dbn_multi_close_all or dbn_opra_discover_destroy: the stop flag is set
\* and the owner waits in pthread_join.
LoopStop ==
  /\ gowner = "run"
  /\ gstop' = TRUE
  /\ gowner' = "joining"
  /\ UNCHANGED <<gkind, glink, gposted, gcq, gpc, gcur, gstate, gfailed, gafter>>
  /\ UNCHANGED <<svars, dvars, mvars, fvars, hvars, tvars, ovars, qvars>>

\* Every pthread_join has returned: all workers have.
LoopJoined ==
  /\ gowner = "joining"
  /\ \A i \in Workers : Joinable(gpc, i)
  /\ gowner' = "returned"
  /\ UNCHANGED <<gkind, glink, gposted, gcq, gpc, gcur, gstop, gstate, gfailed, gafter>>
  /\ UNCHANGED <<svars, dvars, mvars, fvars, hvars, tvars, ovars, qvars>>

\* The steps of worker i.
LoopWorker(i) ==
  \/ LoopTest(i)
  \/ LoopGetTake(i)
  \/ \E st \in {gstate, "XREF", "ERROR"} : LoopGetFinish(i, st)
  \/ LoopGetFatal(i)

\* The kernel serves the posted receives of session i.
LoopKernel(i) ==
  \/ \E b \in Buffers : RingDeliver(i, b)
  \/ \E b \in Buffers : RingFail(i, b)

GNext ==
  \/ \E i \in Sessions : LoopWorker(i)
  \/ \E i \in Sessions : LoopKernel(i)
  \/ \E i \in Sessions : LoopGetInterrupted(i)
  \/ \E i \in Sessions, how \in {"eof", "reset"} : RingLose(i, how)
  \/ LoopStop
  \/ LoopJoined

(***************************************************************************)
(* Specifications.                                                         *)
(***************************************************************************)
PIdle == FIdle /\ HIdle /\ TIdle /\ OIdle /\ QIdle /\ GIdle

Init == SInit /\ DInit /\ MInit /\ PIdle

Next == SNext /\ UNCHANGED <<dvars, mvars, pvars>>

\* The session engine driven by its owner, with the kernel side of the ring.
Spec == Init /\ [][Next]_vars

\* The discovery engine; the records its dbn_get calls dispatch are drawn
\* from Messages.
InitDiscover == Init /\ stream = <<4>> /\ on_msg

SpecDiscover == InitDiscover /\ [][DNext]_vars

\* The supervisor with its workers.
SpecMulti == InitDiscover /\ [][MNext]_vars

\* A process that runs one of the two engines that own worker threads: the
\* discovery engine or the supervisor.
WNext ==
  \/ MInit /\ DNext
  \/ DInit /\ life = "init" /\ MNext

SpecWorkers == InitDiscover /\ [][WNext]_vars

\* The engines at rest: nothing but the protocol functions runs.
EnginesIdle == SInit /\ stream = <<4>> /\ on_msg /\ DInit /\ MInit

\* get_control_message_field applied to every message and key.
InitField == EnginesIdle /\ FInit /\ HIdle /\ TIdle /\ OIdle /\ QIdle /\ GIdle

SpecField == InitField /\ [][FNext]_vars

\* The handshake of dbn_connect against every sequence of gateway lines.
InitHandshake == EnginesIdle /\ FIdle /\ HInit /\ TIdle /\ OIdle /\ QIdle /\ GIdle

SpecHandshake == InitHandshake /\ [][HNext]_vars

\* dbn_start for every list length, replay flag and suffix of the model,
\* against every preamble.
InitStart == EnginesIdle /\ FIdle /\ HIdle /\ TInit /\ OIdle /\ QIdle /\ GIdle

SpecStart == InitStart /\ [][TNext]_vars

\* osi_parse for every string of OsiSymbols.
InitOsi == EnginesIdle /\ FIdle /\ HIdle /\ TIdle /\ OInit /\ QIdle /\ GIdle

SpecOsi == InitOsi /\ [][ONext]_vars

\* The roots search for every table of SearchTables and every key.
InitSearch == EnginesIdle /\ FIdle /\ HIdle /\ TIdle /\ OIdle /\ QInit /\ GIdle

SpecSearch == InitSearch /\ [][QNext]_vars

\* The thread that runs on_msg keeps running.
SpecSearchLive == SpecSearch /\ WF_vars(QNext)

\* The worker loops of the supervisor and of discovery.
InitLoop == EnginesIdle /\ FIdle /\ HIdle /\ TIdle /\ OIdle /\ QIdle /\ GInit

SpecLoop == InitLoop /\ [][GNext]_vars

\* Every thread keeps running, the kernel completes every posted receive of
\* a connection that is lost, and the gateway keeps sending on every
\* connection that is live.  Nothing is assumed about signals.
SpecLoopLive ==
  /\ SpecLoop
  /\ \A i \in Sessions : WF_vars(LoopWorker(i)) /\ WF_vars(LoopKernel(i))
  /\ WF_vars(LoopJoined)

(***************************************************************************)
(* Properties of the session engine.                                       *)
(***************************************************************************)
\* The records the gateway sent, as the message handler should see them.
Expected == RecordsOf(stream)

ValidStream == \A i \in 1..Len(stream) : ValidRLength(stream[i])

\* A run on a valid stream in which the transport only delivered data.
Clean == ValidStream /\ ~hist.fault

\* Every byte of the wire was received and every completion consumed.
Quiescent ==
  /\ life = "started" /\ pc = "idle"
  /\ sent = Len(wire) /\ cq = <<>>

RECURSIVE SumLen(_)
SumLen(recs) == IF recs = <<>> THEN 0 ELSE Len(Head(recs)) + SumLen(Tail(recs))

\* The records dispatched by the dbn_get call that is running or returned last.
ThisCall == SubSeq(delivered, Len(delivered) - nMsgs + 1, Len(delivered))

\* The buffers named by the completions dbn_get has not consumed yet.
Completed == { cq[i].buf : i \in 1..Len(cq) }

AtReturn(op) == pc = "idle" /\ lastOp = op

C2_CarryOverIncomplete ==
  pc = "idle" =>
    \/ leftover_count < HdrLen
    \/ leftover_count < LenUnit * leftover[1]

\* dbn_get returned with a header and part of a body carried over.
C2_Witness ==
  /\ AtReturn("get") /\ ret >= 0
  /\ leftover_count >= HdrLen

\* C6: when dbn_connect, dbn_start or dbn_get returns success, no fatal
\* error was reported during the call.
C6_FatalIsReturned ==
  (pc = "idle" /\ lastOp \in {"connect", "start", "get"} /\ ret >= 0)
     => nFatal = 0

C10_CloseOnlyOwn ==
  lastOp = "close" =>
    /\ ~hist.exitedUninit
    /\ ~hist.closedForeign
    /\ nFatal = 0 /\ nMsgs = 0

Live == mpc # "destroyed"

Accepts(m) == osi_parse(m.stype_out).ok

RootOf(m) == osi_parse(m.stype_out).root

\* The SMAP records with a 21-character symbol, in arrival order.
Accepted == SelectSeq(smapLog, Accepts)

\* The options a root should hold: those of the accepted records with
\* that root, in arrival order.
RECURSIVE OptionsFor(_, _)
OptionsFor(log, root) ==
  IF log = <<>> THEN <<>>
  ELSE (IF RootOf(Head(log)) = root
          THEN <<[instrument_id |-> Head(log).instrument_id,
                  symbol |-> osi_parse(Head(log).stype_out)]>>
          ELSE <<>>)
       \o OptionsFor(Tail(log), root)

\* An entry's options without their sdef pointers.
Held(entry) ==
  [j \in 1..Len(entry.options) |->
     [instrument_id |-> entry.options[j].instrument_id,
      symbol |-> entry.options[j].symbol]]

\* C3: the roots are strictly increasing in strcmp order.
C3_RootsStrictlyIncreasing ==
  \A i \in 1..(num_roots - 1) : strcmp(roots[i].root, roots[i + 1].root) < 0

\* C4: the table has one entry per distinct parsed root, holding the
\* options of the records with that root in arrival order.
C4_OneEntryPerRoot ==
  Live =>
    /\ num_roots = Cardinality({ RootOf(Accepted[k]) : k \in 1..Len(Accepted) })
    /\ \A i \in 1..num_roots : Held(roots[i]) = OptionsFor(Accepted, roots[i].root)

Rank(st) ==
  CASE st = "NOT_STARTED" -> 0
    [] st = "CONNECTED" -> 1
    [] st = "SUBSCRIBED" -> 2
    [] st = "XREF" -> 3
    [] st = "DONE" -> 4
    [] OTHER -> 5

\* A change of state the lifecycle allows.
Forward(a, b) ==
  \/ a = b
  \/ /\ a \notin {"ERROR", "DONE"}
     /\ b = "ERROR" \/ Rank(a) < Rank(b)

\* C5: every change of discover->state made on the worker thread (by
\* worker, on_msg or on_error) moves forward along NOT_STARTED, CONNECTED,
\* SUBSCRIBED, XREF, DONE or to ERROR, and ERROR and DONE are never left.
C5_StateMonotone ==
  (Live /\ wpc \notin {"none", "start"}) => Forward(prev, state)

C11_DestroyJoinsSpawned ==
  mpc \in {"joining", "crashed", "destroyed"} => wpc # "none"

\* C17: the cross-reference pass runs, and has run, only in the state XREF:
\* while the worker is in the pass or between the pass and the write of
\* DONE, discover->state is XREF.
C17_XrefOnlyInXref ==
  wpc \in {"xref", "done"} => state = "XREF"

\* C18: until destroy, discover->error is assigned at most once (stated for
\* the runs in which dbn_connect obtained its socket).
C18_ErrorWrittenOnce == (Live /\ sock # -1) => errWrites <= 1

\* C19: until destroy, discover->error is NULL whenever the state is not
\* ERROR (stated for the runs in which dbn_connect obtained its socket).
C19_ErrorNullUnlessError ==
  (Live /\ sock # -1 /\ state # "ERROR") => error = NoText

\* C20: no two options of the roots table, in the same root or in
\* different roots, have the same instrument_id.
C20_OptionIdsUnique ==
  \A i, k \in 1..Len(roots) :
    \A j \in 1..Len(roots[i].options), l \in 1..Len(roots[k].options) :
      <<i, j>> # <<k, l>> =>
        roots[i].options[j].instrument_id # roots[k].options[l].instrument_id

\* C21: in a roots table that is in increasing order, the search for a root
\* that the table already holds ends at that entry's index with
\* insertion_needed = false, so that handling an SMAP of this root leaves
\* the entries in place and appends one option to that entry.
C21_ExistingRootFound ==
  (Live /\ \A i, k \in 1..num_roots :
              i < k => strcmp(roots[i].root, roots[k].root) < 0) =>
     \A i \in 1..num_roots :
        Search(roots, roots[i].root) =
          [insertion_point |-> i - 1, insertion_needed |-> FALSE]

\* In program order the tables are written only by the worker, before it
\* writes DONE: until the context is destroyed, every step that changes the
\* roots table (entries, options, sdef pointers) or the buckets is a step
\* of the worker inside dbn_get or in the cross-reference pass, and once
\* the state is DONE the worker has returned.
TablesWrittenOnlyByWorker ==
  [][/\ (mpc' # "destroyed" /\ (roots' # roots \/ sdefs' # sdefs)) =>
          /\ wpc \in {"get", "drain", "xref"}
          /\ state # "DONE" /\ state' # "DONE"
          /\ mpc' = mpc
     /\ (mpc' # "destroyed" /\ state' = "DONE") => wpc' = "exited"]_vars

\* C30: a thread that reads DONE from discover->state (written after a
\* replay that finished, and before destroy) observes no write to the
\* tables: every store the worker made to roots, options and buckets is
\* visible to it.
C30_ReaderSeesNoWrite ==
  (Live /\ state = "DONE" /\ prev = "XREF") => ~pending

(***************************************************************************)
(* Properties of the supervisor.                                           *)
(***************************************************************************)
\* Until dbn_multi_close_all has zeroed the structure.
MultiLive == spc # "closed" /\ closeCalls = 0

Spawned == { i \in Sessions : tpc[i] # "none" }

\* Worker i has completed its subscription: dbn_start returned 0 and the
\* worker has recorded it in num_subscribed.
Subscribed(i) == tstart[i] = "ok" /\ tpc[i] # "count"

RECURSIVE SumOver(_, _)
SumOver(f, S) ==
  IF S = {} THEN 0
  ELSE LET x == CHOOSE y \in S : TRUE IN f[x] + SumOver(f, S \ {x})

\* C12: whenever dbn_multi_close_all can be called or is joining,
\* num_sessions is the number of workers that were spawned, and the slot it
\* is about to join holds a spawned worker.
C12_SessionsAreSpawned ==
  /\ (MultiLive /\ spc \in {"idle", "join"}) => num_sessions = Cardinality(Spawned)
  /\ (spc = "join" /\ close_i < num_sessions) => SlotSpawned(threads, close_i)

AllSubscribed == \A i \in 1..num_sessions : Subscribed(i)

C15_CloseAfterJoin ==
  \A i \in 1..Len(clients) :
    clients[i].closed =>
      /\ spc \in {"close", "closed"} \/ closeCalls >= 1
      /\ \A j \in Spawned : tpc[j] = "exited"

C15_Witness ==
  /\ spc = "close"
  /\ \E i \in 1..Len(clients) : clients[i].closed
  /\ \E j \in Spawned : tstart[j] = "ok" /\ tcalls[j] = 1

\* C29: once a call of dbn_multi_close_all has returned, the structure is
\* the zero structure (no sessions, NULL arrays, stop flag clear, counter 0),
\* and every later call makes no pthread_join, no dbn_close and no free and
\* returns with the structure in that same state.
C29_CloseAllIdempotent ==
  closeCalls >= 1 =>
     /\ spc = "closed" =>
           /\ num_sessions = 0 /\ threads = <<>> /\ alloc = {}
           /\ ~multi_stop /\ num_subscribed = 0
     /\ (spc # "closed" \/ closeCalls >= 2) => ops = NoOps

\* A second call has returned after a first call that joined two workers
\* and closed their sessions.
C29_Witness ==
  /\ closeCalls = 2 /\ spc = "closed"
  /\ Len(clients) = 2
  /\ \A i \in 1..2 : clients[i].closed /\ tpc[i] = "exited"

\* C16: once the stop flag is set, a worker of the supervisor and the
\* worker of the discovery engine begin at most one further dbn_get call,
\* the one they had decided on before the flag was set, and leave the loop
\* at the next test of the flag.
C16_AtMostOneCallAfterStop ==
  /\ callsAfterStop <= 1
  /\ (stop /\ wpc = "call") => callsAfterStop = 0
  /\ \A i \in Sessions :
       /\ tcalls[i] <= 1
       /\ (multi_stop /\ tpc[i] = "call") => tcalls[i] = 0

C16_Witness ==
  /\ multi_stop
  /\ \E i \in Sessions : tcalls[i] = 1 /\ tpc[i] = "exited"

(***************************************************************************)
(* Properties of the control-message functions.                            *)
(***************************************************************************)
\* The fields of a message: the texts between the '|'.
RECURSIVE FieldsOf(_)
FieldsOf(msg) ==
  LET bar == strchr(msg, 0, "|")
  IN IF bar = -1 THEN <<msg>>
     ELSE <<SubSeq(msg, 1, bar)>> \o FieldsOf(SubSeq(msg, bar + 2, Len(msg)))

\* The field f has the key k: it is k, '=', value.
HasKey(f, k) ==
  /\ Len(f) > Len(k)
  /\ SubSeq(f, 1, Len(k)) = k
  /\ f[Len(k) + 1] = "="

\* The value of the first field of msg whose key is exactly key.
ValueOfKey(msg, key) ==
  LET fs == FieldsOf(msg)
      at == { i \in 1..Len(fs) : HasKey(fs[i], key) }
  IN IF at = {} THEN NoValue
     ELSE LET i == CHOOSE i \in at : \A j \in at : i <= j
          IN Value(SubSeq(fs[i], Len(key) + 2, Len(fs[i])))

\* No field of the message has an empty value.
NoEmptyValue(msg) ==
  \A i \in 1..Len(FieldsOf(msg)) : FieldsOf(msg)[i][Len(FieldsOf(msg)[i])] # "="

\* C23: get_control_message_field returns the value of the field whose key
\* is exactly the key asked for, up to the next '|' or the end of the
\* message, and NULL when no field has that key (stated for the messages
\* in which every field has a value of at least one character).
C23_FieldOfExactKey ==
  (fpc = "done" /\ NoEmptyValue(fmsg)) => fval = ValueOfKey(fmsg, fkey)

\* dbn_connect sends one authentication line, after its second message and
\* before it reads the third, and every return that is not a success is
\* -1 with one fatal error reported: whenever a message cannot be read (the
\* peer closed, recv failed), a looked-up field is not found, sodium_init
\* fails, or the success value is not "1".
HandshakeOrder ==
  /\ hsends \in {<<>>, <<2>>}
  /\ Len(hmsgs) < 2 => hsends = <<>>
  /\ ((Len(hmsgs) = 2 /\ hph = "recv") \/ Len(hmsgs) = 3) => hsends = <<2>>
  /\ hph = "returned" =>
        /\ hret = 0 => (hfatal = 0 /\ Len(hmsgs) = 3 /\ hsends = <<2>>)
        /\ hret # 0 => (hfatal = 1 /\ hret = -1)

\* C22: dbn_connect returns 0 only if the first message has a field
\* lsg_version, the second a field cram, and the third a field success with
\* the value 1.
C22_SuccessOnlyIfFields ==
  (hph = "returned" /\ hret = 0) =>
     /\ ValueOfKey(hmsgs[1], LSG_VERSION).ok
     /\ ValueOfKey(hmsgs[2], CRAM).ok
     /\ ValueOfKey(hmsgs[3], SUCCESS) = Value(<<"1">>)

(***************************************************************************)
(* Properties of dbn_start.                                                *)
(***************************************************************************)
\* The subscription lines sent so far.
Subscriptions == SelectSeq(tlines, LAMBDA l : l.kind = "subscribe")

CeilDiv(a, b) == (a + b - 1) \div b

\* The subscription loop of dbn_start is over.
StartSubscribed == tph \in {"start_session", "preheader", "check", "header", "returned"}

\* C24: for a symbol list of length n >= 1, dbn_start sends exactly
\* ceil(n/1000) subscription lines; line k (from 0) carries the symbols
\* 1000k .. min(1000k+999, n-1) in input order, each followed by the suffix,
\* separated by commas and ended by the newline, so every symbol appears
\* exactly once; is_last is 1 on the final line and 0 on every other line.
C24_SubscriptionLines ==
  (tnum >= 1 /\ StartSubscribed) =>
    LET subs  == Subscriptions
        lines == CeilDiv(tnum, 1000)
    IN /\ Len(subs) = lines
       /\ \A k \in 0..(lines - 1) :
            LET first == 1000 * k
                last  == IF 1000 * k + 999 < tnum - 1 THEN 1000 * k + 999
                         ELSE tnum - 1
                sy    == subs[k + 1].symbols
            IN /\ Len(sy) = last - first + 1
               /\ \A j \in 1..Len(sy) :
                    /\ sy[j].root = first + j - 1
                    /\ sy[j].suffix = tsuffix
                    /\ sy[j].sep = IF j < Len(sy) THEN "," ELSE "\n"
               /\ subs[k + 1].is_last = IF k = lines - 1 THEN "1" ELSE "0"

\* 2,001 symbols with the suffix ".OPT" went out in three lines of 1,000,
\* 1,000 and 1 symbol with is_last 0, 0, 1.
C24_Witness ==
  /\ tnum = 2001 /\ tsuffix = ".OPT" /\ tph = "returned"
  /\ Len(Subscriptions) = 3
  /\ Len(Subscriptions[1].symbols) = 1000
  /\ Len(Subscriptions[2].symbols) = 1000
  /\ Len(Subscriptions[3].symbols) = 1
  /\ Subscriptions[1].is_last = "0"
  /\ Subscriptions[2].is_last = "0"
  /\ Subscriptions[3].is_last = "1"

\* Position of an operation in the protocol of dbn_start.
StartRank(ev) ==
  CASE ev = "subscribe" -> 1
    [] ev = "start_session" -> 2
    [] ev = "recv" -> 3
    [] ev = "submit" -> 4

StartCount(log, ev) == Cardinality({a \in DOMAIN log : log[a] = ev})

\* The preamble names the stream "DBN" in version 1.
GoodPreamble == tgw # <<>> /\ tgw[1] = "D" /\ tgw[2] = "B" /\ tgw[3] = "N" /\ tgw[4] = 1

\* C25: dbn_start sends all subscription lines before start_session=0,
\* sends start_session=0 exactly once, reads the stream preamble only
\* afterwards, and submits the two receive requests only if the signature
\* is "DBN" and the version byte is 1; otherwise it fails with a fatal error
\* and submits no receive request.
C25_StartOrder ==
  /\ \A a, b \in DOMAIN tlog : a < b => StartRank(tlog[a]) <= StartRank(tlog[b])
  /\ StartCount(tlog, "start_session") <= 1
  /\ StartCount(tlog, "start_session") = 1 =>
       StartCount(tlog, "subscribe") = IF tnum = 0 THEN 1 ELSE CeilDiv(tnum, 1000)
  /\ StartCount(tlog, "recv") > 0 => StartCount(tlog, "start_session") = 1
  /\ tposted # {} =>
       /\ GoodPreamble
       /\ tposted = Buffers
       /\ StartCount(tlog, "submit") = 1
       /\ tret = 0 /\ tfatal = 0
  /\ (tph = "returned" /\ ~(thead = 8 /\ GoodPreamble)) =>
       tret = -1 /\ tfatal = 1 /\ tposted = {}
  /\ (tph = "returned" /\ tret = 0) => tposted = Buffers

\* dbn_start returned 0 after two subscription lines, start_session, the
\* preamble and a header of two bytes, with both receive requests submitted.
C25_Witness ==
  /\ tph = "returned" /\ tret = 0 /\ tposted = Buffers
  /\ tnum = 1001 /\ thdr = 2
  /\ tlog = <<"subscribe", "subscribe", "start_session", "recv", "submit">>

\* dbn_start was refused by a preamble of version 2 and submitted nothing.
StartRefusedVersion ==
  /\ tph = "returned" /\ tret = -1 /\ tposted = {}
  /\ thead = 8 /\ tgw[4] = 2 /\ SubSeq(tgw, 1, 3) = <<"D", "B", "N">>

(***************************************************************************)
(* Properties of osi_parse.                                                *)
(***************************************************************************)
AllDigits(s) == \A i \in DOMAIN s : s[i] \in 48..57

\* The number a string of decimal digits denotes.
RECURSIVE DecimalValue(_)
DecimalValue(s) ==
  IF s = <<>> THEN 0
  ELSE 10 * DecimalValue(SubSeq(s, 1, Len(s) - 1)) + (s[Len(s)] - 48)

\* s without the spaces at its end.
RECURSIVE TrimTrailing(_)
TrimTrailing(s) ==
  IF s # <<>> /\ s[Len(s)] = 32 THEN TrimTrailing(SubSeq(s, 1, Len(s) - 1)) ELSE s

\* The 64-bit value st is exactly v * 1,000,000.
IsMillionTimes(st, v) ==
  /\ st[1] = 0
  /\ st[3] % 1000000 = 0
  /\ st[2] * 1000 + st[3] \div 1000000 = v

\* C31: osi_parse rejects every input whose length is not 21; for every
\* input of 21 characters it accepts and yields the root = bytes 0..5
\* without their trailing spaces, year, month and day = the decimal values
\* of bytes 6-7, 8-9 and 10-11, is_call = (byte 12 is 'C') and strike = the
\* decimal value of bytes 13..20 times 1,000,000.
C31_ParsesEvery21 ==
  opc = "done" =>
    IF Len(osym) # 21 THEN ~ores.ok
    ELSE /\ ores.ok
         /\ ores.root = TrimTrailing(SubSeq(osym, 1, 6))
         /\ AllDigits(SubSeq(osym, 7, 8)) =>
              ores.exp_year = DecimalValue(SubSeq(osym, 7, 8))
         /\ AllDigits(SubSeq(osym, 9, 10)) =>
              ores.exp_month = DecimalValue(SubSeq(osym, 9, 10))
         /\ AllDigits(SubSeq(osym, 11, 12)) =>
              ores.exp_day = DecimalValue(SubSeq(osym, 11, 12))
         /\ ores.is_call = (osym[13] = 67)
         /\ AllDigits(SubSeq(osym, 14, 21)) =>
              IsMillionTimes(ores.strike, DecimalValue(SubSeq(osym, 14, 21)))

\* The root is padded at its end only: no space is followed by another character.
PaddedRoot(s) == \A i \in 1..5 : s[i] = 32 => s[i + 1] = 32

\* The same for the inputs whose root bytes hold no space before another
\* character.
ParsesPaddedRoots == (opc = "done" /\ Len(osym) = 21 /\ ~PaddedRoot(osym)) \/ C31_ParsesEvery21

\* "TSLA  250815C00100000" gives TSLA, 25, 8, 15, call, 100,000,000,000.
ParsedExample ==
  /\ opc = "done" /\ osym = Pad6(TSLA) \o CallTail
  /\ ores = [ok |-> TRUE, root |-> TSLA, exp_year |-> 25, exp_month |-> 8,
             exp_day |-> 15, is_call |-> TRUE, strike |-> <<0, 100, 0>>]

\* v in decimal, in exactly width digits.
RECURSIVE DigitsOf(_, _)
DigitsOf(v, width) ==
  IF width = 0 THEN <<>>
  ELSE DigitsOf(v \div 10, width - 1) \o <<48 + (v % 10)>>

\* The 64-bit value st divided by 1,000,000 (for values below 10^18).
Millionth(st) == st[2] * 1000 + st[3] \div 1000000

\* The record written with the widths of an OSI symbol: the root padded
\* with spaces to 6, year, month and day in 2 digits, C or P, the strike
\* divided by 1,000,000 in 8 digits.
Serialise(o) ==
  Pad6(o.root) \o DigitsOf(o.exp_year, 2) \o DigitsOf(o.exp_month, 2)
    \o DigitsOf(o.exp_day, 2) \o <<IF o.is_call THEN 67 ELSE 80>>
    \o DigitsOf(Millionth(o.strike), 8)

\* A 6-byte space-padded root, three groups of 2 digits, 'C' or 'P', 8 digits.
WellFormed(s) ==
  /\ Len(s) = 21
  /\ PaddedRoot(s)
  /\ AllDigits(SubSeq(s, 7, 12))
  /\ s[13] \in {67, 80}
  /\ AllDigits(SubSeq(s, 14, 21))

\* C32: for every well-formed OSI string s, writing the record returned by
\* osi_parse(s) back with the prescribed field widths yields s.
C32_RoundTrip ==
  (opc = "done" /\ WellFormed(osym)) => (ores.ok /\ Serialise(ores) = osym)

\* "SPY   991231P00012345" was parsed and written back unchanged.
C32_Witness ==
  /\ opc = "done"
  /\ osym = Pad6(SPY) \o <<57, 57, 49, 50, 51, 49, 80>>
              \o <<48, 48, 48, 49, 50, 51, 52, 53>>
  /\ WellFormed(osym)
  /\ ores.strike = <<0, 12, 345000000>>
  /\ Serialise(ores) = osym

(***************************************************************************)
(* Properties of the discovery tables.                                     *)
(***************************************************************************)
\* A record on_msg does not consume: an SMAP whose symbol has not 21
\* characters, a system message with another text, a record of another type.
NotConsumed(m) ==
  \/ m.rtype = DBN_RTYPE_SMAP /\ Len(m.stype_out) # 21
  \/ m.rtype = DBN_RTYPE_SMSG /\ m.msg # "Finished definition replay"
  \/ m.rtype \notin {DBN_RTYPE_SMAP, DBN_RTYPE_SDEF, DBN_RTYPE_SMSG, DBN_RTYPE_EMSG}

\* C33: a record that discovery does not consume changes neither the roots
\* table, the definition index, the counters, the state nor the error slot.
C33_UnconsumedChangeNothing ==
  [][\A m \in Messages :
       (NotConsumed(m) /\ WorkerGetMsg(m)) =>
          UNCHANGED <<roots, sdefs, num_options, num_sdefs, state, error>>]_vars

\* Three records were handled, one of them an SMAP, and nothing was stored.
C33_Witness ==
  /\ handled = 3 /\ Len(smapLog) = 1 /\ NotConsumed(smapLog[1])
  /\ state = "SUBSCRIBED" /\ error = NoText
  /\ roots = <<>> /\ sdefs = EmptyBuckets /\ num_options = 0 /\ num_sdefs = 0

\* Every stored definition lies in the bucket of its instrument id.
InOwnBucket ==
  \A b \in BucketIdx : \A k \in 1..Len(sdefs[b].sdefs) :
    sdefs[b].sdefs[k].instrument_id % 50000 = b

\* A step of the discovery engine that is not the end of destroy: an SDEF
\* record goes to the end of its bucket and every other bucket stays; any
\* other step leaves all buckets' definitions as they are.
BucketsAppendOnly ==
  /\ \A m \in SdefMessages :
       WorkerGetMsg(m) =>
         /\ sdefs'[m.instrument_id % 50000].sdefs =
              Append(sdefs[m.instrument_id % 50000].sdefs, m)
         /\ \A b \in BucketIdx \ {m.instrument_id % 50000} : sdefs'[b] = sdefs[b]
  /\ (mpc' # "destroyed" /\ ~(\E m \in SdefMessages : WorkerGetMsg(m))) =>
       \A b \in BucketIdx : sdefs'[b].sdefs = sdefs[b].sdefs

\* C34: every definition stored in bucket b has instrument_id mod 50000 = b,
\* each received SDEF is stored exactly once, in arrival order within its
\* bucket, and no bucket's count decreases before destroy.
C34_BucketsKeepArrivals == []InOwnBucket /\ [][BucketsAppendOnly]_vars

\* Two definitions with ids 1 and 50001 arrived in this order and share
\* bucket 1.
C34_Witness ==
  /\ Live /\ num_sdefs = 2
  /\ Len(sdefs[1].sdefs) = 2
  /\ sdefs[1].sdefs[1].instrument_id = 1
  /\ sdefs[1].sdefs[2].instrument_id = 50001

RECURSIVE SumOptions(_)
SumOptions(rts) ==
  IF rts = <<>> THEN 0 ELSE Len(Head(rts).options) + SumOptions(Tail(rts))

C40_XrefAttachesEarliest ==
  wpc = "done" =>
    \A i \in 1..Len(roots) : \A j \in 1..Len(roots[i].options) :
      LET o == roots[i].options[j]
          bucket == sdefs[o.instrument_id % 50000].sdefs
          hits == { k \in 1..Len(bucket) : bucket[k].instrument_id = o.instrument_id }
      IN hits # {} =>
           /\ o.sdef # NULL
           /\ o.sdef[1] = o.instrument_id % 50000
           /\ o.sdef[2] \in hits
           /\ \A k \in hits : o.sdef[2] <= k

\* Two definitions of instrument 1 were received and the option of
\* instrument 1 points to the first.
C40_Witness ==
  /\ wpc = "done"
  /\ Len(sdefs[1].sdefs) = 2
  /\ sdefs[1].sdefs[1].instrument_id = 1 /\ sdefs[1].sdefs[2].instrument_id = 1
  /\ \E i \in 1..Len(roots) : \E j \in 1..Len(roots[i].options) :
       roots[i].options[j].instrument_id = 1 /\ roots[i].options[j].sdef = <<1, 1>>

(***************************************************************************)
(* Properties of the roots search.                                         *)
(***************************************************************************)
\* The loop run pass by pass ends where the search of on_msg ends.
SearchAgrees ==
  qpc = "done" =>
    Search(qtab, qkey) = [insertion_point |-> qpoint, insertion_needed |-> qneeded]

\* C35: for every table content, sorted or not, of size >= 1 and every key
\* the loop of the roots search ends after finitely many passes, at a hit,
\* at the first or last element, or at a unit-step reversal, with an
\* insertion point in 0..num_roots.
C35_SearchTerminates ==
  /\ <>(qpc = "done")
  /\ [](qpc = "done" =>
          /\ qpoint \in 0..Len(qtab)
          /\ Len(qtab) >= 1 => qend \in {"hit", "first", "last", "reversal"})

\* The search of a table that is not in order ended at a unit-step reversal
\* after the step had been halved from 4 to 1.
C35_Witness ==
  /\ qpc = "done" /\ qend = "reversal"
  /\ Len(qtab) = 8 /\ qstep = 1 /\ qindex \notin {3, 4, 5}
  /\ \E i \in 1..7 : strcmp(qtab[i].root, qtab[i + 1].root) > 0

(***************************************************************************)
(* Properties of the two receive buffers.                                  *)
(***************************************************************************)
\* The buffer the dbn_get call in progress is draining.
Draining == IF pc = "drain" THEN {cur} ELSE {}

\* Each buffer is posted, completed and waiting, or being drained, and in
\* one of these conditions only.
Accounted ==
  \A b \in Buffers :
    Cardinality({c \in {"posted", "completed", "draining"} :
                   \/ c = "posted" /\ b \in posted
                   \/ c = "completed" /\ b \in Completed
                   \/ c = "draining" /\ b \in Draining}) = 1

\* C38 as stated: at every moment after dbn_start succeeds each of the two
\* buffers is posted, completed, or being drained.
C38_AlwaysAccounted == life = "started" => Accounted

\* C38 amended: after dbn_start succeeds at most one buffer is being
\* drained, the buffer handed to the message handler is not posted, and
\* posted plus unconsumed requests never exceed 2; until a dbn_get call
\* fails, each buffer is in exactly one of the three conditions.
C38_AccountedUntilFailure ==
  life = "started" =>
    /\ Cardinality(Draining) <= 1
    /\ Draining \cap posted = {}
    /\ Cardinality(posted) + Len(cq) <= 2
    /\ ~hist.getFailed => Accounted

\* One buffer is being drained after a record was dispatched from it, while
\* the other is posted to the kernel.
C38_Witness ==
  /\ life = "started" /\ ~hist.getFailed
  /\ pc = "drain" /\ nInvoked >= 1
  /\ posted = Buffers \ {cur} /\ cq = <<>>

(***************************************************************************)
(* Properties of the worker loops.                                         *)
(***************************************************************************)
\* C36: once dbn_multi_close_all is called it eventually returns, also when
\* the connection of a session was lost before: the worker of that session
\* reaches the test of the stop flag and exits.
C36_CloseAllReturns ==
  (gkind = "multi" /\ gowner = "joining") ~> (gowner = "returned")

\* The worker of a session is inside dbn_get with no receive request
\* outstanding and no completion queued, while dbn_multi_close_all waits
\* for it.
BlockedForever ==
  /\ gkind = "multi" /\ gowner = "joining"
  /\ \E i \in Workers :
       gpc[i] = "wait" /\ gposted[i] = {} /\ gcq[i] = <<>> /\ gfailed[i]

\* C37: once a dbn_get call on a session has failed with a fatal error, no
\* worker starts another dbn_get call on that session.
C37_NoGetAfterFatal == \A i \in Sessions : gafter[i] = 0

\* The same for the worker of discovery alone.
DiscoverNoGetAfterFatal == gkind = "discover" => \A i \in Sessions : gafter[i] = 0

\* The worker of discovery left its loop after a dbn_get call had failed.
DiscoverLeftAfterFatal ==
  gkind = "discover" /\ gfailed[1] /\ gpc[1] = "exited" /\ ~gstop

====
